---- MODULE Spec2Model ----
(***************************************************************************)
(* Channel adapters of nexus-openclaw: the WhatsApp, Telegram and Discord  *)
(* adapters' connection life cycle (connect, disconnect, sendMessage, the  *)
(* platform's connection events and the WhatsApp reconnect timer).         *)
(*                                                                         *)
(* A handler runs atomically up to its first await on the platform or on   *)
(* the status callback of another call; the part after the await is a      *)
(* separate action (...Resume), so other handlers interleave there as they *)
(* do on the JavaScript event loop.                                        *)
(***************************************************************************)
EXTENDS Integers, Sequences, FiniteSets, Bags, TLC

\* ---------------------------------------------------------------- bounds
MaxConn == 2        \* connection objects (sockets/bots/clients) plus pending timers
MaxInflight == 1    \* calls suspended at an await at the same time
MaxSent == 1        \* cap of stats.messagesSent
MaxEvents == 2      \* inbound messages the platform delivers
MaxSockets == 2     \* client sockets that connect to the gateway
MaxExec == 2        \* skill executions started, which may all run at the same time
MaxPackets == 1     \* packets published to the broker and not relayed yet
MaxNow == 2         \* seconds the clock runs

\* ------------------------------------------------------ program constants
maxReconnectAttempts == 10
BaseDelay == 1000
MaxDelay == 30000
totalSteps == 5

DISCONNECTED == "disconnected"
CONNECTING == "connecting"
CONNECTED == "connected"
ERROR == "error"
ConnectionStatus == {DISCONNECTED, CONNECTING, CONNECTED, ERROR}

Variants == {"whatsapp", "telegram", "discord"}
ConnIds == 1..MaxConn

VARIABLES
  variant,            \* which adapter class the instance is
  webhookUrl,         \* TelegramConfig.webhookUrl is set
  status,             \* this.status
  conn,               \* this.socket / this.bot / this.client (0 = null)
  conns,              \* the platform's connection objects: closed/pending/open
  runner,             \* TelegramAdapter.runner (0 = null, else the bot it polls)
  reconnectAttempts,  \* WhatsAppAdapter.reconnectAttempts
  isShuttingDown,     \* this.isShuttingDown
  timers,             \* number of pending setTimeout reconnects
  awaiting,           \* calls suspended at an await (a bag)
  messagesSent,       \* stats.messagesSent
  observing,          \* history: which calls `last` records in detail,
                      \* "lifecycle" or "send"
  sawConnecting,      \* history: connecting was emitted since the last
                      \* connected/disconnected emission
  sinceOpen,          \* history: reconnect timers scheduled since the last open
  exhausted,          \* history: the reconnect budget ran out and neither
                      \* connect() nor disconnect() has been called since
  last,               \* history: what the last recorded handler step did
  calls,              \* the platform's inbound callbacks, in arrival order, each
                      \* with its messages and the position of its handler
  tick,               \* history: number of onMessage calls and returns so far
  messagesReceived,   \* stats.messagesReceived
  errors,             \* stats.errors, as counted by the inbound handlers
  cycle,              \* history (kept when observing is "cycle"): 1 once a
                      \* disconnect() has run to its end, 2 once connect() is
                      \* called after that, 3 once that connect() has started
                      \* its socket
  sockets,            \* the gateway's client sockets: the state of the
                      \* connection, the token being validated, whether
                      \* validation passed (history), socket.data
  rooms,              \* the rooms each socket is a member of
  listening,          \* the sockets whose event handlers are registered
  connectionCount,    \* OpenClawGateway.connectionCount
  allocated,          \* number of session ids handed out by uuidv4()
  creator,            \* history: the organization that created each session
                      \* (kept when observing is "rooms" or "create")
  execs,              \* the skill executions in flight
  started,            \* number of skill executions started
  gw,                 \* history: what the last gateway handler step did
  broker,             \* the packets the shared broker has not relayed yet
  down,               \* the shutdown: the call it is at (0 before shutdown()
                      \* is called, past the last when it is over), whether
                      \* it threw, as history the calls attempted so far, and
                      \* whether process.exit() was called
  rows,               \* the rows of openclaw.message_channels
  cache,              \* the auth client's Redis cache: the entries set under their keys
  now,                \* the clock, Date.now() / 1000
  svc                 \* history: what the last repository, encryption or
                      \* auth-client call did

adapterVars == <<variant, webhookUrl, cycle, status, conn, conns, runner,
                 reconnectAttempts, isShuttingDown, timers, awaiting,
                 messagesSent, observing, sawConnecting, sinceOpen, exhausted,
                 last>>

inboundVars == <<calls, tick, messagesReceived, errors>>

gatewayVars == <<sockets, rooms, listening, connectionCount, allocated, creator,
                 execs, started, gw>>

serviceVars == <<broker, down, rows, cache, now, svc>>

vars == <<adapterVars, inboundVars, gatewayVars, serviceVars>>

\* ---------------------------------------------------------------- helpers
Min(a, b) == IF a < b THEN a ELSE b

RECURSIVE Pow2(_)
Pow2(n) == IF n = 0 THEN 1 ELSE 2 * Pow2(n - 1)

Live == {c \in ConnIds : conns[c] # "closed"}

HasFree == Cardinality(Live) < MaxConn

FreeId == CHOOSE c \in ConnIds : conns[c] = "closed" /\ \A d \in ConnIds : conns[d] = "closed" => c <= d

CanCreate == Cardinality(Live) + timers < MaxConn

Suspended(op, c) == SetToBag({[op |-> op, c |-> c]})

\* sawConnecting after the emissions ems, starting from saw
RECURSIVE SawAfter(_, _)
SawAfter(saw, ems) ==
  IF ems = <<>> THEN saw
  ELSE SawAfter(IF Head(ems) = CONNECTING THEN TRUE
                ELSE IF Head(ems) \in {CONNECTED, DISCONNECTED} THEN FALSE
                ELSE saw, Tail(ems))

\* history of one handler step: the operation, its argument, its outcome, the
\* status, sawConnecting and messagesSent it started from, the statuses it handed to
\* onStatusChange (in order), the delays of the timers it scheduled, the
\* connection objects it created, whether it called the platform's send
Did(op, arg, result, emitted, delays, made, handed) ==
  [op |-> op, arg |-> arg, result |-> result, status0 |-> status,
   saw0 |-> sawConnecting, sent0 |-> messagesSent, emitted |-> emitted,
   delays |-> delays, made |-> made, handed |-> handed]

\* a step that is not recorded in detail
Unobserved ==
  [op |-> "other", arg |-> "", result |-> "ok", status0 |-> DISCONNECTED,
   saw0 |-> FALSE, sent0 |-> 0, emitted |-> <<>>, delays |-> <<>>, made |-> 0,
   handed |-> FALSE]

Record(op, arg, result, emitted, delays, made) ==
  /\ last' = IF observing \in {"lifecycle", "cycle"}
             THEN Did(op, arg, result, emitted, delays, made, FALSE)
             ELSE Unobserved
  /\ sawConnecting' = IF observing = "lifecycle"
                      THEN SawAfter(sawConnecting, emitted)
                      ELSE sawConnecting

Exhausted(b) == exhausted' = IF observing = "lifecycle" THEN b ELSE exhausted

Cycled(c) == cycle' = IF observing = "cycle" THEN c ELSE cycle

InitAdapter ==
  /\ variant \in Variants
  /\ webhookUrl \in (IF variant = "telegram" THEN BOOLEAN ELSE {FALSE})
  /\ status = DISCONNECTED
  /\ conn = 0
  /\ conns = [c \in ConnIds |-> "closed"]
  /\ runner = 0
  /\ reconnectAttempts = 0
  /\ isShuttingDown = FALSE
  /\ timers = 0
  /\ awaiting = EmptyBag
  /\ messagesSent = 0
  /\ sawConnecting = FALSE
  /\ sinceOpen = 0
  /\ exhausted = FALSE
  /\ last = [op |-> "init", arg |-> "", result |-> "ok", status0 |-> DISCONNECTED,
             saw0 |-> FALSE, sent0 |-> 0, emitted |-> <<>>, delays |-> <<>>,
             made |-> 0, handed |-> FALSE]
  /\ cycle = 0

\* no inbound callback has run
InitInbound ==
  /\ calls = <<>>
  /\ tick = 0
  /\ messagesReceived = 0
  /\ errors = 0

\* nothing has been published, no shutdown has begun, the table and the
\* cache are empty
InitService ==
  /\ broker = <<>>
  /\ down = [pc |-> 0, threw |-> FALSE, did |-> <<>>, exited |-> FALSE]
  /\ rows = <<>>
  /\ cache = {}
  /\ now = 0
  /\ svc = [op |-> "none"]

\* ---------------------------------------------------------------- gateway
SockIds == 1..MaxSockets

\* the users the auth service knows, each with the organization of its
\* account; the valid token of a user is named after the user
Users == {"alice", "bob"}

OrgOf(u) == IF u = "bob" THEN "B" ELSE "A"

Orgs == {OrgOf(u) : u \in Users}

\* what a client can present: no token, a token the auth service does not
\* accept, a user's valid token
Tokens == {"none", "bad"} \cup Users

NoUser == [userId |-> "", organizationId |-> ""]

\* the outcomes of NexusAuthClient.validateToken: the user of a valid token,
\* or an exception (NoUser) for an invalid token or a failing auth service
validateToken(token) ==
  IF token \in Users
  THEN {[userId |-> token, organizationId |-> OrgOf(token)], NoUser}
  ELSE {NoUser}

\* the ids uuidv4() hands out, in this order
SessionIds == <<"s1", "s2">>

SessionName(i) == SessionIds[i]

OrgRoom(o) == [kind |-> "org", id |-> o]

UserRoom(u) == [kind |-> "user", id |-> u]

\* the room named by the client's session id alone, without the prefix
SessionRoomUnprefixed(id) == [kind |-> "org", id |-> id]

SessionRoom(id) == [kind |-> "session", id |-> id]

\* the sockets in a room, to which io.to(room).emit delivers
Members(rs, room) == {s \in SockIds : room \in rs[s]}

\* one emitted event: its name, the sockets it is delivered to, the session
\* it names, its role or status, its content, and whether the socket of the
\* handler was a member of that session's room when it was emitted
Emit(ev, to, sid, tag, content, joined) ==
  [ev |-> ev, to |-> to, sid |-> sid, tag |-> tag, content |-> content,
   joined |-> joined]

\* history of one gateway handler step: the handler, its socket, the session
\* id (or the argument) and the content of its payload, whether the socket
\* was in that session's room before the step, the events emitted in order
Handled(op, s, sid, content, out) ==
  [op |-> op, sock |-> s, sid |-> sid, content |-> content,
   member0 |-> (s \in SockIds /\ SessionRoom(sid) \in rooms[s]), out |-> out]

\* a gateway step that is not recorded in detail
Quiet ==
  [op |-> "other", sock |-> 0, sid |-> "", content |-> "", member0 |-> FALSE,
   out |-> <<>>]

\* the handlers each value of `observing` records
Watched(op) ==
  CASE observing = "rooms" -> op \in {"connect", "connection", "disconnect",
                                      "broadcastToOrg", "broadcastToUser"}
    [] observing = "create" -> op = "session.create"
    [] observing = "join" -> op \in {"session.join", "session.leave"}
    [] observing = "send" -> op = "message.send"
    [] observing = "skill" -> op \in {"skill.execute", "skill.step"}
    [] observing = "broker" -> op \in {"broadcastToSession", "relay"}
    [] OTHER -> FALSE

Note(op, s, sid, content, out) ==
  gw' = IF Watched(op) THEN Handled(op, s, sid, content, out) ELSE Quiet

\* the gateway after initialize(): no client has connected
InitGateway ==
  /\ sockets = [s \in SockIds |->
                 [st |-> "new", token |-> "none", validated |-> FALSE, data |-> NoUser]]
  /\ rooms = [s \in SockIds |-> {}]
  /\ listening = [s \in SockIds |-> FALSE]
  /\ connectionCount = 0
  /\ allocated = 0
  /\ creator = <<>>
  /\ execs = <<>>
  /\ started = 0
  /\ gw = Quiet

Init == InitAdapter /\ InitInbound /\ InitService /\ InitGateway /\ observing = "lifecycle"

InitSend == InitAdapter /\ InitInbound /\ InitService /\ InitGateway /\ observing = "send"

\* ------------------------------------------------------------- connect()
\* connect() without its already-connected check
ConnectBeginUnguarded(op, aw, cbOk) ==
  IF cbOk
  THEN /\ BagCardinality(aw) < MaxInflight
       /\ status' = CONNECTING
       /\ awaiting' = aw (+) Suspended("connect", 0)
       /\ Record(op, "", "pending", <<CONNECTING>>, <<>>, 0)
  ELSE /\ status' = ERROR
       /\ awaiting' = aw
       /\ Record(op, "", "threw", <<CONNECTING, ERROR>>, <<>>, 0)

\* connect() up to the await of onStatusChange(CONNECTING); the same code in
\* the three adapters.  aw: the suspended calls besides this one; cbOk: the
\* status callback resolves (a rejection goes to the catch block).
ConnectBegin(op, aw, cbOk) ==
  IF status = CONNECTED
  THEN /\ Record(op, "", "ok", <<>>, <<>>, 0)
       /\ awaiting' = aw
       /\ UNCHANGED status
  ELSE IF cbOk
  THEN /\ BagCardinality(aw) < MaxInflight
       /\ status' = CONNECTING
       /\ awaiting' = aw (+) Suspended("connect", 0)
       /\ Record(op, "", "pending", <<CONNECTING>>, <<>>, 0)
  ELSE /\ status' = ERROR
       /\ awaiting' = aw
       /\ Record(op, "", "threw", <<CONNECTING, ERROR>>, <<>>, 0)

\* the catch block of connect(): status ERROR, reported, rethrown
ConnectFailed(made) ==
  /\ status' = ERROR
  /\ Record("connectResume", "", "threw", <<ERROR>>, <<>>, made)

\* the end of the try block of the Telegram and Discord connect(): status
\* CONNECTED is set and reported; a rejecting callback goes to the catch block
ConnectSucceeded(cbOk) ==
  IF cbOk
  THEN /\ status' = CONNECTED
       /\ Record("connectResume", "", "ok", <<CONNECTED>>, <<>>, 1)
  ELSE /\ status' = ERROR
       /\ Record("connectResume", "", "threw", <<CONNECTED, ERROR>>, <<>>, 1)

\* ------------------------------------------------------ WhatsAppAdapter
WhatsAppConnect ==
  /\ variant = "whatsapp"
  /\ \E cbOk \in BOOLEAN : ConnectBegin("connect", awaiting, cbOk)
  /\ Exhausted(FALSE)
  /\ Cycled(IF /\ cycle = 1
               /\ ~BagIn([op |-> "connect", c |-> 0], awaiting)
               /\ BagIn([op |-> "connect", c |-> 0], awaiting')
            THEN 2 ELSE cycle)
  /\ UNCHANGED <<gatewayVars, serviceVars, inboundVars, variant, webhookUrl, conn, conns, runner, reconnectAttempts,
                 isShuttingDown, timers, messagesSent, observing, sinceOpen>>

\* startSocket() succeeded: makeWASocket + setupEventHandlers
startSocket ==
  /\ conns' = [conns EXCEPT ![FreeId] = "pending"]
  /\ conn' = FreeId

\* connect() after the await: startSocket() resolves or rejects
WhatsAppConnectResume ==
  /\ variant = "whatsapp"
  /\ BagIn([op |-> "connect", c |-> 0], awaiting)
  /\ awaiting' = awaiting (-) Suspended("connect", 0)
  /\ \/ /\ CanCreate
        /\ startSocket
        /\ Record("connectResume", "", "ok", <<>>, <<>>, 1)
        /\ Cycled(IF cycle = 2 THEN 3 ELSE cycle)
        /\ UNCHANGED status
     \/ /\ ConnectFailed(0)
        /\ UNCHANGED <<conn, conns, cycle>>
  /\ Exhausted(FALSE)
  /\ UNCHANGED <<gatewayVars, serviceVars, inboundVars, variant, webhookUrl, runner, reconnectAttempts, isShuttingDown,
                 timers, messagesSent, observing, sinceOpen>>

\* the setTimeout callback of handleConnectionClose: startSocket(), whose
\* rejection nobody handles
WhatsAppTimer ==
  /\ variant = "whatsapp"
  /\ timers > 0
  /\ timers' = timers - 1
  /\ \/ /\ HasFree
        /\ startSocket
        /\ Record("timer", "", "ok", <<>>, <<>>, 1)
     \/ /\ Record("timer", "", "threw", <<>>, <<>>, 0)
        /\ UNCHANGED <<conn, conns>>
  /\ UNCHANGED <<gatewayVars, serviceVars, inboundVars, variant, webhookUrl, cycle, status, runner, reconnectAttempts,
                 isShuttingDown, awaiting, messagesSent, observing, sinceOpen,
                 exhausted>>

\* handleConnectionOpen without the reset of the attempt counter
handleConnectionOpenNoReset ==
  /\ status' = CONNECTED
  /\ sinceOpen' = 0
  /\ Record("open", IF reconnectAttempts > 0 THEN "retried" ELSE "first", "ok",
            <<CONNECTED>>, <<>>, 0)
  /\ UNCHANGED reconnectAttempts

handleConnectionOpen ==
  /\ reconnectAttempts' = 0
  /\ status' = CONNECTED
  /\ sinceOpen' = 0
  /\ Record("open", IF reconnectAttempts > 0 THEN "retried" ELSE "first", "ok",
            <<CONNECTED>>, <<>>, 0)

\* connection.update {connection: 'open'} of a socket that was connecting
WhatsAppOpen ==
  /\ variant = "whatsapp"
  /\ \E c \in ConnIds :
       /\ conns[c] = "pending"
       /\ conns' = [conns EXCEPT ![c] = "open"]
  /\ handleConnectionOpen
  /\ UNCHANGED <<gatewayVars, serviceVars, inboundVars, variant, webhookUrl, cycle, conn, runner, isShuttingDown, timers,
                 awaiting, messagesSent, observing, exhausted>>

\* the delay computed after the counter's increment instead of before it
DelayAfterIncrement(attempts) == Min(BaseDelay * Pow2(attempts + 1), MaxDelay)

Delay(attempts) == Min(BaseDelay * Pow2(attempts), MaxDelay)

\* handleConnectionClose with <= in place of < in the budget check
handleConnectionCloseOffByOne(loggedOut) ==
  LET shouldReconnect == ~loggedOut
      arg == IF loggedOut THEN "loggedOut" ELSE "transient"
  IN IF shouldReconnect /\ ~isShuttingDown
     THEN IF reconnectAttempts <= maxReconnectAttempts
          THEN /\ reconnectAttempts' = reconnectAttempts + 1
               /\ timers' = timers + 1
               /\ sinceOpen' = sinceOpen + 1
               /\ Record("close", arg, "reconnecting", <<>>,
                         <<Delay(reconnectAttempts)>>, 0)
               /\ UNCHANGED <<status, exhausted>>
          ELSE /\ status' = ERROR
               /\ Exhausted(TRUE)
               /\ Record("close", arg, "exhausted", <<ERROR>>, <<>>, 0)
               /\ UNCHANGED <<reconnectAttempts, timers, sinceOpen>>
     ELSE /\ status' = DISCONNECTED
          /\ Record("close", arg, "ok", <<DISCONNECTED>>, <<>>, 0)
          /\ UNCHANGED <<reconnectAttempts, timers, sinceOpen, exhausted>>

handleConnectionClose(loggedOut) ==
  LET shouldReconnect == ~loggedOut
      arg == IF loggedOut THEN "loggedOut" ELSE "transient"
  IN IF shouldReconnect /\ ~isShuttingDown
     THEN IF reconnectAttempts < maxReconnectAttempts
          THEN /\ reconnectAttempts' = reconnectAttempts + 1
               /\ timers' = timers + 1
               /\ sinceOpen' = sinceOpen + 1
               /\ Record("close", arg, "reconnecting", <<>>,
                         <<Delay(reconnectAttempts)>>, 0)
               /\ UNCHANGED <<status, exhausted>>
          ELSE /\ status' = ERROR
               /\ Exhausted(TRUE)
               /\ Record("close", arg, "exhausted", <<ERROR>>, <<>>, 0)
               /\ UNCHANGED <<reconnectAttempts, timers, sinceOpen>>
     ELSE /\ status' = DISCONNECTED
          /\ Record("close", arg, "ok", <<DISCONNECTED>>, <<>>, 0)
          /\ UNCHANGED <<reconnectAttempts, timers, sinceOpen, exhausted>>

\* connection.update {connection: 'close'} of a socket, with its reason
WhatsAppClose ==
  /\ variant = "whatsapp"
  /\ \E c \in Live : conns' = [conns EXCEPT ![c] = "closed"]
  /\ \E loggedOut \in BOOLEAN : handleConnectionClose(loggedOut)
  /\ UNCHANGED <<gatewayVars, serviceVars, inboundVars, variant, webhookUrl, cycle, conn, runner, isShuttingDown, awaiting,
                 messagesSent, observing>>

\* ------------------------------------------------------------ disconnect()
\* the end of disconnect() without the call of onStatusChange
DisconnectEndSilent(op, cbOk) ==
  /\ conn' = 0
  /\ status' = DISCONNECTED
  /\ Cycled(1)
  /\ Record(op, "", IF cbOk THEN "ok" ELSE "threw", <<>>, <<>>, 0)

\* the end of disconnect(): the reference is dropped, status DISCONNECTED is
\* set and reported; the call rejects when the callback does
DisconnectEnd(op, cbOk) ==
  /\ conn' = 0
  /\ status' = DISCONNECTED
  /\ Cycled(1)
  /\ Record(op, "", IF cbOk THEN "ok" ELSE "threw", <<DISCONNECTED>>, <<>>, 0)

\* disconnect() up to the await of the platform call on `target` (0: there is
\* nothing to await and the call runs to its end)
DisconnectBegin(target) ==
  /\ isShuttingDown' = TRUE
  /\ Exhausted(FALSE)
  /\ IF target # 0
     THEN /\ BagCardinality(awaiting) < MaxInflight
          /\ awaiting' = awaiting (+) Suspended("disconnect", target)
          /\ Record("disconnect", "", "pending", <<>>, <<>>, 0)
          /\ UNCHANGED <<conn, status, cycle>>
     ELSE /\ \E cbOk \in BOOLEAN : DisconnectEnd("disconnect", cbOk)
          /\ UNCHANGED awaiting

\* disconnect() after the await: the platform call resolved (the platform has
\* ended that connection) or rejected (the rejection leaves disconnect())
DisconnectAfterAwait ==
  /\ \E e \in BagToSet(awaiting) :
       /\ e.op = "disconnect"
       /\ awaiting' = awaiting (-) SetToBag({e})
       /\ \/ /\ conns' = [conns EXCEPT ![e.c] = "closed"]
             /\ runner' = 0
             /\ \E cbOk \in BOOLEAN : DisconnectEnd("disconnectResume", cbOk)
          \/ /\ Record("disconnectResume", "", "threw", <<>>, <<>>, 0)
             /\ UNCHANGED <<conn, conns, runner, status, cycle>>
  /\ Exhausted(FALSE)

WhatsAppDisconnect ==
  /\ variant = "whatsapp"
  /\ DisconnectBegin(conn)
  /\ UNCHANGED <<gatewayVars, serviceVars, inboundVars, variant, webhookUrl, conns, runner, reconnectAttempts, timers,
                 messagesSent, observing, sinceOpen>>

WhatsAppDisconnectResume ==
  /\ variant = "whatsapp"
  /\ DisconnectAfterAwait
  /\ UNCHANGED <<gatewayVars, serviceVars, inboundVars, variant, webhookUrl, reconnectAttempts, isShuttingDown,
                 timers, messagesSent, observing, sinceOpen>>

\* ------------------------------------------------------ TelegramAdapter
TelegramConnect ==
  /\ variant = "telegram"
  /\ \E cbOk \in BOOLEAN : ConnectBegin("connect", awaiting, cbOk)
  /\ UNCHANGED <<gatewayVars, serviceVars, inboundVars, variant, webhookUrl, cycle, conn, conns, runner, reconnectAttempts,
                 isShuttingDown, timers, messagesSent, observing, sinceOpen,
                 exhausted>>

\* connect() after the await: new Bot, setupMiddleware, setupHandlers, then
\* startBot() resolves (polling: this.runner = run(bot); webhook: setWebhook)
\* or rejects, leaving a bot that was never started
TelegramConnectResume ==
  /\ variant = "telegram"
  /\ HasFree
  /\ BagIn([op |-> "connect", c |-> 0], awaiting)
  /\ awaiting' = awaiting (-) Suspended("connect", 0)
  /\ conn' = FreeId
  /\ \/ /\ conns' = [conns EXCEPT ![FreeId] = "open"]
        /\ runner' = IF webhookUrl THEN runner ELSE FreeId
        /\ \E cbOk \in BOOLEAN : ConnectSucceeded(cbOk)
     \/ /\ ConnectFailed(1)
        /\ UNCHANGED <<conns, runner>>
  /\ UNCHANGED <<gatewayVars, serviceVars, inboundVars, variant, webhookUrl, cycle, reconnectAttempts, isShuttingDown,
                 timers, messagesSent, observing, sinceOpen, exhausted>>

\* disconnect(): awaits runner.stop() when a runner exists, else
\* bot.api.deleteWebhook() when a bot exists in webhook mode (a runner exists
\* in polling mode only, so at most one of the two is awaited)
TelegramDisconnect ==
  /\ variant = "telegram"
  /\ DisconnectBegin(IF runner # 0 THEN runner ELSE IF webhookUrl THEN conn ELSE 0)
  /\ UNCHANGED <<gatewayVars, serviceVars, inboundVars, variant, webhookUrl, conns, runner, reconnectAttempts, timers,
                 messagesSent, observing, sinceOpen>>

TelegramDisconnectResume ==
  /\ variant = "telegram"
  /\ DisconnectAfterAwait
  /\ UNCHANGED <<gatewayVars, serviceVars, inboundVars, variant, webhookUrl, reconnectAttempts, isShuttingDown,
                 timers, messagesSent, observing, sinceOpen>>

\* ------------------------------------------------------- DiscordAdapter
DiscordConnect ==
  /\ variant = "discord"
  /\ \E cbOk \in BOOLEAN : ConnectBegin("connect", awaiting, cbOk)
  /\ UNCHANGED <<gatewayVars, serviceVars, inboundVars, variant, webhookUrl, cycle, conn, conns, runner, reconnectAttempts,
                 isShuttingDown, timers, messagesSent, observing, sinceOpen,
                 exhausted>>

\* connect() after the await: new Client, setupEventHandlers, then
\* client.login() resolves or rejects (registerSlashCommands catches its own
\* errors)
DiscordConnectResume ==
  /\ variant = "discord"
  /\ HasFree
  /\ BagIn([op |-> "connect", c |-> 0], awaiting)
  /\ awaiting' = awaiting (-) Suspended("connect", 0)
  /\ conn' = FreeId
  /\ \/ /\ conns' = [conns EXCEPT ![FreeId] = "open"]
        /\ \E cbOk \in BOOLEAN : ConnectSucceeded(cbOk)
     \/ /\ ConnectFailed(1)
        /\ UNCHANGED conns
  /\ UNCHANGED <<gatewayVars, serviceVars, inboundVars, variant, webhookUrl, cycle, runner, reconnectAttempts, isShuttingDown,
                 timers, messagesSent, observing, sinceOpen, exhausted>>

\* Events.ShardDisconnect of a logged-in client, with the kind of its close
\* code; unless shutting down, attemptReconnect() runs up to the await of
\* client.destroy()
DiscordShardDisconnect ==
  /\ variant = "discord"
  /\ \E c \in Live, arg \in {"loggedOut", "transient"} :
       /\ conns' = [conns EXCEPT ![c] = "closed"]
       /\ IF isShuttingDown
          THEN /\ Record("close", arg, "ok", <<>>, <<>>, 0)
               /\ UNCHANGED <<awaiting, status>>
          ELSE IF conn # 0
          THEN /\ BagCardinality(awaiting) < MaxInflight
               /\ awaiting' = awaiting (+) Suspended("reconnect", conn)
               /\ Record("close", arg, "reconnecting", <<>>, <<>>, 0)
               /\ UNCHANGED status
          ELSE \E cbOk \in BOOLEAN : ConnectBegin("close", awaiting, cbOk)
  /\ UNCHANGED <<gatewayVars, serviceVars, inboundVars, variant, webhookUrl, cycle, conn, runner, reconnectAttempts,
                 isShuttingDown, timers, messagesSent, observing, sinceOpen,
                 exhausted>>

\* attemptReconnect() after the await: destroy() resolved and connect() is
\* called, or it rejected and the catch block logs it
attemptReconnect ==
  /\ variant = "discord"
  /\ \E e \in BagToSet(awaiting) :
       /\ e.op = "reconnect"
       /\ \/ /\ conns' = [conns EXCEPT ![e.c] = "closed"]
             /\ \E cbOk \in BOOLEAN :
                  ConnectBegin("attemptReconnect", awaiting (-) SetToBag({e}), cbOk)
          \/ /\ awaiting' = awaiting (-) SetToBag({e})
             /\ Record("attemptReconnect", "", "caught", <<>>, <<>>, 0)
             /\ UNCHANGED <<conns, status>>
  /\ UNCHANGED <<gatewayVars, serviceVars, inboundVars, variant, webhookUrl, cycle, conn, runner, reconnectAttempts,
                 isShuttingDown, timers, messagesSent, observing, sinceOpen,
                 exhausted>>

DiscordDisconnect ==
  /\ variant = "discord"
  /\ DisconnectBegin(conn)
  /\ UNCHANGED <<gatewayVars, serviceVars, inboundVars, variant, webhookUrl, conns, runner, reconnectAttempts, timers,
                 messagesSent, observing, sinceOpen>>

DiscordDisconnectResume ==
  /\ variant = "discord"
  /\ DisconnectAfterAwait
  /\ UNCHANGED <<gatewayVars, serviceVars, inboundVars, variant, webhookUrl, reconnectAttempts, isShuttingDown,
                 timers, messagesSent, observing, sinceOpen>>

\* ------------------------------------------------------------ sendMessage()
\* sendMessage without the check of the status
sendMessageUnchecked ==
  /\ \E out \in {"threwBefore", "threw", "ok"} :
       IF conn = 0
       THEN /\ last' = Did("sendMessage", "", "notConnected", <<>>, <<>>, 0, FALSE)
            /\ UNCHANGED messagesSent
       ELSE IF out = "ok"
       THEN /\ conns[conn] = "open"
            /\ messagesSent < MaxSent
            /\ messagesSent' = messagesSent + 1
            /\ last' = Did("sendMessage", "", "ok", <<>>, <<>>, 0, TRUE)
       ELSE /\ last' = Did("sendMessage", "", "threw", <<>>, <<>>, 0, out = "threw")
            /\ UNCHANGED messagesSent
  /\ UNCHANGED <<gatewayVars, serviceVars, inboundVars, variant, webhookUrl, cycle, status, conn, conns, runner,
                 reconnectAttempts, isShuttingDown, timers, awaiting, observing,
                 sawConnecting, sinceOpen, exhausted>>

\* the two guards, then the try block: building the payload may throw before
\* the platform is called, the platform's send may reject, or it resolves
sendMessage ==
  /\ \E out \in {"threwBefore", "threw", "ok"} :
       IF conn = 0 \/ status # CONNECTED
       THEN /\ last' = Did("sendMessage", "", "notConnected", <<>>, <<>>, 0, FALSE)
            /\ UNCHANGED messagesSent
       ELSE IF out = "ok"
       THEN /\ conns[conn] = "open"
            /\ messagesSent < MaxSent
            /\ messagesSent' = messagesSent + 1
            /\ last' = Did("sendMessage", "", "ok", <<>>, <<>>, 0, TRUE)
       ELSE /\ last' = Did("sendMessage", "", "threw", <<>>, <<>>, 0, out = "threw")
            /\ UNCHANGED messagesSent
  /\ UNCHANGED <<gatewayVars, serviceVars, inboundVars, variant, webhookUrl, cycle, status, conn, conns, runner,
                 reconnectAttempts, isShuttingDown, timers, awaiting, observing,
                 sawConnecting, sinceOpen, exhausted>>

\* ------------------------------------------------------- inbound messages
Chats == {"a", "b"}

\* what the platform can deliver to each adapter: a text message, a message
\* with media, a payload no handler or mapping exists for, a message of the
\* adapter's own account (WhatsApp key.fromMe, Discord author.bot)
KindsOf(v) ==
  IF v = "whatsapp" THEN {"text", "media", "unmapped", "own"}
  ELSE IF v = "telegram" THEN {"text", "media", "unmapped"}
  ELSE {"text", "media", "own"}

\* an inbound message as delivered, with the history of its handling: how
\* often it was handed to onMessage, the ticks of that call and of its return,
\* and the error counted for it ("convert", "sink" or "no")
Arrived(chat, kind) ==
  [chat |-> chat, kind |-> kind, n |-> 0, called |-> 0, returned |-> 0, err |-> "no"]

NoMessage == [chat |-> "", type |-> "null"]

\* the normalizer with a default mapping in place of `return null`
convertUnmappedAsText(m) ==
  [chat |-> m.chat, type |-> IF m.kind = "unmapped" THEN "text" ELSE m.kind]

\* convertToInternalMessage / the per-type Telegram handlers: the message, or
\* no message for a payload without a mapping
convertToInternalMessage(m) ==
  IF m.kind = "unmapped" THEN NoMessage ELSE [chat |-> m.chat, type |-> m.kind]

\* the conversion awaits the platform (WhatsApp downloadMedia, Telegram
\* getFile); the Discord conversion takes the attachment's URL as it is
Downloads(m) == m.kind = "media" /\ variant \in {"whatsapp", "telegram"}

\* the loop of the handlers without the check of the sender
SkipsUnmappedOnly(m) == convertToInternalMessage(m) = NoMessage

\* a message the handler passes over without forwarding it
Skips(m) == m.kind = "own" \/ convertToInternalMessage(m) = NoMessage

\* the first message at or after position i that the loop of handleMessages
\* does not pass over
RECURSIVE NextIdx(_, _)
NextIdx(msgs, i) ==
  IF i > Len(msgs) THEN i
  ELSE IF Skips(msgs[i]) THEN NextIdx(msgs, i + 1)
  ELSE i

\* messagesReceived++ and the call of onMessage for message j of callback h
CallSink(cs, h, j, t) ==
  /\ calls' = [cs EXCEPT ![h].i = j, ![h].pc = "sink",
                         ![h].msgs[j].n = @ + 1, ![h].msgs[j].called = t + 1]
  /\ tick' = t + 1
  /\ messagesReceived' = messagesReceived + 1

\* the handler of callback h runs on from message `from` to its next await
\* or to its end
Continue(cs, h, from, t) ==
  LET j == NextIdx(cs[h].msgs, from)
  IN IF j > Len(cs[h].msgs)
     THEN /\ calls' = [cs EXCEPT ![h].i = j, ![h].pc = "done"]
          /\ tick' = t
          /\ UNCHANGED messagesReceived
     ELSE IF Downloads(cs[h].msgs[j])
     THEN /\ calls' = [cs EXCEPT ![h].i = j, ![h].pc = "download"]
          /\ tick' = t
          /\ UNCHANGED messagesReceived
     ELSE CallSink(cs, h, j, t)

\* the messages of the callbacks cs
RECURSIVE Count(_)
Count(cs) == IF cs = <<>> THEN 0 ELSE Len(Head(cs).msgs) + Count(Tail(cs))

\* the batches of at most k messages the platform can deliver
Batches(k) ==
  UNION {[1..n -> {Arrived(c, kd) : c \in Chats, kd \in KindsOf(variant)}] : n \in 1..k}

Callback(notify, msgs) == [notify |-> notify, msgs |-> msgs, i |-> 1, pc |-> "start"]

CanDeliver == (\E c \in ConnIds : conns[c] = "open") /\ Count(calls) < MaxEvents

\* the await of onMessage in callback h settles: a rejection is caught and
\* counted, then the handler runs on
SinkReturns(h, ok) ==
  /\ calls[h].pc = "sink"
  /\ errors' = IF ok THEN errors ELSE errors + 1
  /\ Continue([calls EXCEPT ![h].msgs[calls[h].i].returned = tick + 1,
                            ![h].msgs[calls[h].i].err = IF ok THEN "no" ELSE "sink"],
              h, calls[h].i + 1, tick + 1)

\* messages.upsert: handleMessages up to its first await
WhatsAppUpsert ==
  /\ variant = "whatsapp"
  /\ CanDeliver
  /\ \E notify \in BOOLEAN, msgs \in Batches(MaxEvents - Count(calls)) :
       LET cs == Append(calls, Callback(notify, msgs))
       IN IF ~notify
          THEN /\ calls' = [cs EXCEPT ![Len(cs)].pc = "done"]
               /\ UNCHANGED <<tick, messagesReceived>>
          ELSE Continue(cs, Len(cs), 1, tick)
  /\ UNCHANGED <<gatewayVars, serviceVars, variant, webhookUrl, cycle, status, conn, conns, runner,
                 reconnectAttempts, isShuttingDown, timers, awaiting,
                 messagesSent, observing, sawConnecting, sinceOpen, exhausted,
                 last, errors>>

\* downloadMedia settles: the media, or undefined when the download failed or
\* the socket is gone; the message is forwarded either way
WhatsAppDownloaded ==
  /\ variant = "whatsapp"
  /\ \E h \in DOMAIN calls :
       /\ calls[h].pc = "download"
       /\ CallSink(calls, h, calls[h].i, tick)
  /\ UNCHANGED <<gatewayVars, serviceVars, variant, webhookUrl, cycle, status, conn, conns, runner,
                 reconnectAttempts, isShuttingDown, timers, awaiting,
                 messagesSent, observing, sawConnecting, sinceOpen, exhausted,
                 last, errors>>

WhatsAppSinkReturns ==
  /\ variant = "whatsapp"
  /\ \E h \in DOMAIN calls, ok \in BOOLEAN : SinkReturns(h, ok)
  /\ UNCHANGED <<gatewayVars, serviceVars, variant, webhookUrl, cycle, status, conn, conns, runner,
                 reconnectAttempts, isShuttingDown, timers, awaiting,
                 messagesSent, observing, sawConnecting, sinceOpen, exhausted,
                 last>>

\* sequentialize: callback h waits for every earlier callback of its chat
Blocked(cs, h) ==
  \E g \in 1..(h - 1) : cs[g].pc # "done" /\ cs[g].msgs[1].chat = cs[h].msgs[1].chat

\* an update from the runner or from handleWebhook: it passes sequentialize
\* and runs its handler up to the first await, or waits
TelegramUpdate ==
  /\ variant = "telegram"
  /\ CanDeliver
  /\ \E msgs \in Batches(1) :
       LET cs == Append(calls, Callback(TRUE, msgs))
       IN IF Blocked(cs, Len(cs))
          THEN /\ calls' = [cs EXCEPT ![Len(cs)].pc = "waiting"]
               /\ UNCHANGED <<tick, messagesReceived>>
          ELSE Continue(cs, Len(cs), 1, tick)
  /\ UNCHANGED <<gatewayVars, serviceVars, variant, webhookUrl, cycle, status, conn, conns, runner,
                 reconnectAttempts, isShuttingDown, timers, awaiting,
                 messagesSent, observing, sawConnecting, sinceOpen, exhausted,
                 last, errors>>

\* sequentialize lets a waiting update through
TelegramSequentialized ==
  /\ variant = "telegram"
  /\ \E h \in DOMAIN calls :
       /\ calls[h].pc = "waiting"
       /\ ~Blocked(calls, h)
       /\ Continue(calls, h, 1, tick)
  /\ UNCHANGED <<gatewayVars, serviceVars, variant, webhookUrl, cycle, status, conn, conns, runner,
                 reconnectAttempts, isShuttingDown, timers, awaiting,
                 messagesSent, observing, sawConnecting, sinceOpen, exhausted,
                 last, errors>>

\* handleMediaMessage after ctx.api.getFile: the message is forwarded, or the
\* rejection is caught, counted and the message is lost
TelegramGotFile ==
  /\ variant = "telegram"
  /\ \E h \in DOMAIN calls :
       /\ calls[h].pc = "download"
       /\ \/ /\ CallSink(calls, h, calls[h].i, tick)
             /\ UNCHANGED errors
          \/ /\ calls' = [calls EXCEPT ![h].pc = "done",
                                        ![h].msgs[calls[h].i].err = "convert"]
             /\ errors' = errors + 1
             /\ UNCHANGED <<tick, messagesReceived>>
  /\ UNCHANGED <<gatewayVars, serviceVars, variant, webhookUrl, cycle, status, conn, conns, runner,
                 reconnectAttempts, isShuttingDown, timers, awaiting,
                 messagesSent, observing, sawConnecting, sinceOpen, exhausted,
                 last>>

TelegramSinkReturns ==
  /\ variant = "telegram"
  /\ \E h \in DOMAIN calls, ok \in BOOLEAN : SinkReturns(h, ok)
  /\ UNCHANGED <<gatewayVars, serviceVars, variant, webhookUrl, cycle, status, conn, conns, runner,
                 reconnectAttempts, isShuttingDown, timers, awaiting,
                 messagesSent, observing, sawConnecting, sinceOpen, exhausted,
                 last>>

\* Events.MessageCreate: handleMessage up to the await of onMessage
DiscordMessageCreate ==
  /\ variant = "discord"
  /\ CanDeliver
  /\ \E msgs \in Batches(1) :
       Continue(Append(calls, Callback(TRUE, msgs)), Len(calls) + 1, 1, tick)
  /\ UNCHANGED <<gatewayVars, serviceVars, variant, webhookUrl, cycle, status, conn, conns, runner,
                 reconnectAttempts, isShuttingDown, timers, awaiting,
                 messagesSent, observing, sawConnecting, sinceOpen, exhausted,
                 last, errors>>

DiscordSinkReturns ==
  /\ variant = "discord"
  /\ \E h \in DOMAIN calls, ok \in BOOLEAN : SinkReturns(h, ok)
  /\ UNCHANGED <<gatewayVars, serviceVars, variant, webhookUrl, cycle, status, conn, conns, runner,
                 reconnectAttempts, isShuttingDown, timers, awaiting,
                 messagesSent, observing, sawConnecting, sinceOpen, exhausted,
                 last>>

\* ------------------------------------------------------- gateway handlers
\* the session ids a client can name: the ids handed out so far
SessionArgs == {SessionName(i) : i \in 1..allocated}

Contents == {"c1", "c2"}

Connected(s) == sockets[s].st = "connected"

\* the auth middleware up to the await of validateToken: a handshake without
\* a token is refused at once
AuthMiddleware ==
  /\ \E s \in SockIds, token \in Tokens :
       /\ sockets[s].st = "new"
       /\ \A r \in 1..(s - 1) : sockets[r].st # "new"
       /\ IF token = "none"
          THEN /\ sockets' = [sockets EXCEPT ![s].st = "rejected"]
               /\ Note("connect", s, "", "Authentication required", <<>>)
          ELSE /\ sockets' = [sockets EXCEPT ![s].st = "auth", ![s].token = token]
               /\ Note("connect", s, "", "", <<>>)
  /\ UNCHANGED <<adapterVars, inboundVars, serviceVars, rooms, listening, connectionCount,
                 allocated, creator, execs, started>>

\* handleConnection: the socket joins the rooms of its organization and of
\* its user, is told so, and gets its event handlers
handleConnection(s, user) ==
  /\ connectionCount' = connectionCount + 1
  /\ rooms' = [rooms EXCEPT ![s] = {OrgRoom(user.organizationId), UserRoom(user.userId)}]
  /\ listening' = [listening EXCEPT ![s] = TRUE]
  /\ Note("connection", s, "", "", <<Emit("connected", {s}, "", "", "", FALSE)>>)

\* the auth middleware that lets the connection through when validation fails
AuthMiddlewareResumeFailOpen ==
  /\ \E s \in SockIds :
       /\ sockets[s].st = "auth"
       /\ \E user \in validateToken(sockets[s].token) :
            /\ sockets' = [sockets EXCEPT ![s] = [st |-> "connected", token |-> "none",
                                                 validated |-> user # NoUser,
                                                 data |-> user]]
            /\ handleConnection(s, user)
  /\ UNCHANGED <<adapterVars, inboundVars, serviceVars, allocated, creator, execs, started>>

\* the auth middleware after the await: validateToken returned the user, whose
\* data is attached to the socket before the connection is handled, or it
\* threw and the connection is refused
AuthMiddlewareResume ==
  /\ \E s \in SockIds :
       /\ sockets[s].st = "auth"
       /\ \E user \in validateToken(sockets[s].token) :
            IF user = NoUser
            THEN /\ sockets' = [sockets EXCEPT ![s].st = "rejected", ![s].token = "none"]
                 /\ Note("connect", s, "", "Invalid or expired token", <<>>)
                 /\ UNCHANGED <<rooms, listening, connectionCount>>
            ELSE /\ sockets' = [sockets EXCEPT ![s] = [st |-> "connected", token |-> "none",
                                                      validated |-> TRUE, data |-> user]]
                 /\ handleConnection(s, user)
  /\ UNCHANGED <<adapterVars, inboundVars, serviceVars, allocated, creator, execs, started>>

\* history: the organization of the client that created the new session,
\* kept where handshakes or session.create are recorded
Created(org) ==
  creator' = IF observing \in {"rooms", "create"} THEN Append(creator, org) ELSE creator

\* handleSessionCreate emitting session.created before it joins the room
handleSessionCreateEmitFirst ==
  /\ allocated < Len(SessionIds)
  /\ \E s \in SockIds :
       LET sessionId == SessionName(allocated + 1)
           org == sockets[s].data.organizationId
           joined == [rooms EXCEPT ![s] = @ \cup {SessionRoom(sessionId)}]
       IN /\ Connected(s) /\ listening[s]
          /\ allocated' = allocated + 1
          /\ Created(org)
          /\ rooms' = joined
          /\ Note("session.create", s, sessionId, "",
                     <<Emit("session.created", {s}, sessionId, "", "", FALSE),
                       Emit("session.new", Members(joined, OrgRoom(org)), sessionId, "", "", TRUE)>>)
  /\ UNCHANGED <<adapterVars, inboundVars, serviceVars, sockets, listening, connectionCount,
                 execs, started>>

\* handleSessionCreate: a new session id, the socket joins the session's room,
\* session.created goes to the socket and session.new to its organization's
\* room. socket.data.sessionId, which the session handlers write and only
\* handleSessionLeave reads, to decide whether to clear it, reaches no room and
\* no emission and is left out of the socket's data.
handleSessionCreate ==
  /\ allocated < Len(SessionIds)
  /\ \E s \in SockIds :
       LET sessionId == SessionName(allocated + 1)
           org == sockets[s].data.organizationId
           joined == [rooms EXCEPT ![s] = @ \cup {SessionRoom(sessionId)}]
       IN /\ Connected(s) /\ listening[s]
          /\ allocated' = allocated + 1
          /\ Created(org)
          /\ rooms' = joined
          /\ Note("session.create", s, sessionId, "",
                     <<Emit("session.created", {s}, sessionId, "", "",
                            SessionRoom(sessionId) \in joined[s]),
                       Emit("session.new", Members(joined, OrgRoom(org)), sessionId, "", "", TRUE)>>)
  /\ UNCHANGED <<adapterVars, inboundVars, serviceVars, sockets, listening, connectionCount,
                 execs, started>>

\* session.join that leaves the room when the socket is in it already
handleSessionJoinToggle ==
  /\ \E s \in SockIds, sessionId \in SessionArgs :
       /\ Connected(s) /\ listening[s]
       /\ rooms' = [rooms EXCEPT ![s] = IF SessionRoom(sessionId) \in @
                                        THEN @ \ {SessionRoom(sessionId)}
                                        ELSE @ \cup {SessionRoom(sessionId)}]
       /\ Note("session.join", s, sessionId, "",
                  <<Emit("session.joined", {s}, sessionId, "", "", TRUE)>>)
  /\ UNCHANGED <<adapterVars, inboundVars, serviceVars, sockets, listening, connectionCount,
                 allocated, creator, execs, started>>

handleSessionJoin ==
  /\ \E s \in SockIds, sessionId \in SessionArgs :
       /\ Connected(s) /\ listening[s]
       /\ rooms' = [rooms EXCEPT ![s] = @ \cup {SessionRoom(sessionId)}]
       /\ Note("session.join", s, sessionId, "",
                  <<Emit("session.joined", {s}, sessionId, "", "", TRUE)>>)
  /\ UNCHANGED <<adapterVars, inboundVars, serviceVars, sockets, listening, connectionCount,
                 allocated, creator, execs, started>>

handleSessionLeave ==
  /\ \E s \in SockIds, sessionId \in SessionArgs :
       /\ Connected(s) /\ listening[s]
       /\ rooms' = [rooms EXCEPT ![s] = @ \ {SessionRoom(sessionId)}]
       /\ Note("session.leave", s, sessionId, "",
                  <<Emit("session.left", {s}, sessionId, "", "", FALSE)>>)
  /\ UNCHANGED <<adapterVars, inboundVars, serviceVars, sockets, listening, connectionCount,
                 allocated, creator, execs, started>>

\* message.send broadcast with socket.to(room), which leaves the sender out
handleMessageSendToOthers ==
  /\ \E s \in SockIds, sessionId \in SessionArgs, content \in Contents :
       /\ Connected(s) /\ listening[s]
       /\ Note("message.send", s, sessionId, content,
                  <<Emit("message.received", Members(rooms, SessionRoom(sessionId)) \ {s},
                         sessionId, "user", content, SessionRoom(sessionId) \in rooms[s]),
                    Emit("message.sent", {s}, sessionId, "delivered", "",
                         SessionRoom(sessionId) \in rooms[s])>>)
  /\ UNCHANGED <<adapterVars, inboundVars, serviceVars, sockets, rooms, listening,
                 connectionCount, allocated, creator, execs, started>>

\* handleMessageSend: the message goes to the session's room, then the sender
\* is acknowledged
handleMessageSend ==
  /\ \E s \in SockIds, sessionId \in SessionArgs, content \in Contents :
       /\ Connected(s) /\ listening[s]
       /\ Note("message.send", s, sessionId, content,
                  <<Emit("message.received", Members(rooms, SessionRoom(sessionId)),
                         sessionId, "user", content, SessionRoom(sessionId) \in rooms[s]),
                    Emit("message.sent", {s}, sessionId, "delivered", "",
                         SessionRoom(sessionId) \in rooms[s])>>)
  /\ UNCHANGED <<adapterVars, inboundVars, serviceVars, sockets, rooms, listening,
                 connectionCount, allocated, creator, execs, started>>

\* the executionId of the i-th execution
ExecName(i) == <<"e1", "e2", "e3", "e4", "e5">>[i]

\* handleSkillExecute up to its first await: skill.started goes to the
\* session's room (the executionId is recorded as the event's content). An
\* execution in flight keeps its executionId, the payload's session id, the
\* number of steps done and, as history, the names of the skill events it
\* has emitted; the handler does not use its socket after skill.started
handleSkillExecute ==
  /\ started < MaxExec
  /\ \E s \in SockIds, sessionId \in SessionArgs :
       /\ Connected(s) /\ listening[s]
       /\ started' = started + 1
       /\ execs' = Append(execs, [id |-> ExecName(started + 1), sid |-> sessionId,
                                  step |-> 0, log |-> <<"skill.started">>])
       /\ Note("skill.execute", s, sessionId, "",
                  <<Emit("skill.started", Members(rooms, SessionRoom(sessionId)),
                         sessionId, "", ExecName(started + 1),
                         SessionRoom(sessionId) \in rooms[s])>>)
  /\ UNCHANGED <<adapterVars, inboundVars, serviceVars, sockets, rooms, listening,
                 connectionCount, allocated, creator>>

\* the step of handleSkillExecute that emits skill.completed to every socket
SkillStepToAll ==
  /\ \E i \in DOMAIN execs :
       LET e == execs[i]
           to == Members(rooms, SessionRoom(e.sid))
           progress == Emit("skill.progress", to, e.sid, "", e.id, FALSE)
       IN IF e.step + 1 < totalSteps
          THEN /\ execs' = [execs EXCEPT ![i].step = @ + 1,
                                         ![i].log = Append(@, "skill.progress")]
               /\ Note("skill.step", 0, e.sid, "", <<progress>>)
          ELSE /\ execs' = SubSeq(execs, 1, i - 1) \o SubSeq(execs, i + 1, Len(execs))
               /\ Note("skill.step", 0, e.sid, "",
                          <<progress,
                            Emit("skill.completed", SockIds, e.sid, "", e.id, FALSE),
                            Emit("message.received", to, e.sid, "assistant", e.id, FALSE)>>)
  /\ UNCHANGED <<adapterVars, inboundVars, serviceVars, sockets, rooms, listening,
                 connectionCount, allocated, creator, started>>

\* handleSkillExecute after an await of its 200 ms timer: skill.progress, and
\* after the last step skill.completed and the assistant's message; nothing
\* in the try block throws, so the catch that emits skill.error is not taken
SkillStep ==
  /\ \E i \in DOMAIN execs :
       LET e == execs[i]
           to == Members(rooms, SessionRoom(e.sid))
           progress == Emit("skill.progress", to, e.sid, "", e.id, FALSE)
       IN IF e.step + 1 < totalSteps
          THEN /\ execs' = [execs EXCEPT ![i].step = @ + 1,
                                         ![i].log = Append(@, "skill.progress")]
               /\ Note("skill.step", 0, e.sid, "", <<progress>>)
          ELSE /\ execs' = SubSeq(execs, 1, i - 1) \o SubSeq(execs, i + 1, Len(execs))
               /\ Note("skill.step", 0, e.sid, "",
                          <<progress,
                            Emit("skill.completed", to, e.sid, "", e.id, FALSE),
                            Emit("message.received", to, e.sid, "assistant", e.id, FALSE)>>)
  /\ UNCHANGED <<adapterVars, inboundVars, serviceVars, sockets, rooms, listening,
                 connectionCount, allocated, creator, started>>

\* the client's connection ends: handleDisconnect, and the socket is out of
\* all its rooms
handleDisconnect ==
  /\ \E s \in SockIds :
       /\ Connected(s)
       /\ sockets' = [sockets EXCEPT ![s].st = "closed", ![s].data = NoUser]
       /\ rooms' = [rooms EXCEPT ![s] = {}]
       /\ listening' = [listening EXCEPT ![s] = FALSE]
       /\ connectionCount' = connectionCount - 1
       /\ Note("disconnect", s, "", "", <<>>)
  /\ UNCHANGED <<adapterVars, inboundVars, serviceVars, allocated, creator, execs, started>>

\* broadcastToOrg, called for an inbound channel message of an organization
broadcastToOrg ==
  /\ \E o \in Orgs :
       Note("broadcastToOrg", 0, o, "",
               <<Emit("channel.message", Members(rooms, OrgRoom(o)), "", "", "", FALSE)>>)
  /\ UNCHANGED <<adapterVars, inboundVars, serviceVars, sockets, rooms, listening,
                 connectionCount, allocated, creator, execs, started>>

broadcastToUser ==
  /\ \E u \in Users :
       Note("broadcastToUser", 0, u, "",
               <<Emit("event", Members(rooms, UserRoom(u)), "", "", "", FALSE)>>)
  /\ UNCHANGED <<adapterVars, inboundVars, serviceVars, sockets, rooms, listening,
                 connectionCount, allocated, creator, execs, started>>

\* ------------------------------------------------- two gateway instances
\* two gateway processes whose Socket.IO servers use the Redis adapter on the
\* same Redis server; a client socket is connected to one of them
Instances == {1, 2}

InstanceOf(s) == IF s % 2 = 1 THEN 1 ELSE 2

InstanceName(g) == <<"i1", "i2">>[g]

\* the members of a room that are connected to instance g
MembersOn(g, room) == {s \in Members(rooms, room) : InstanceOf(s) = g}

\* broadcastToSession on a gateway whose initialize() fell back to the
\* in-memory adapter: the event reaches the instance's own clients only
broadcastToSessionInMemory ==
  /\ \E g \in Instances, sessionId \in SessionArgs :
       /\ broker' = broker
       /\ Note("broadcastToSession", 0, sessionId, InstanceName(g),
                  <<Emit("event", MembersOn(g, SessionRoom(sessionId)), sessionId,
                         InstanceName(g), "", FALSE)>>)
  /\ UNCHANGED <<adapterVars, inboundVars, sockets, rooms, listening,
                 connectionCount, allocated, creator, execs, started, down,
                 rows, cache, now, svc>>

\* broadcastToSession on instance g: io.to(room).emit with the Redis adapter
\* delivers to the members connected to g and publishes the packet, which
\* the broker relays to the other instance. The emission is recorded with the
\* name of the instance that delivers it, the step with the one that issued
\* it.
broadcastToSession ==
  /\ Len(broker) < MaxPackets
  /\ \E g \in Instances, sessionId \in SessionArgs :
       /\ broker' = Append(broker, [from |-> g, sid |-> sessionId])
       /\ Note("broadcastToSession", 0, sessionId, InstanceName(g),
                  <<Emit("event", MembersOn(g, SessionRoom(sessionId)), sessionId,
                         InstanceName(g), "", FALSE)>>)
  /\ UNCHANGED <<adapterVars, inboundVars, sockets, rooms, listening,
                 connectionCount, allocated, creator, execs, started, down,
                 rows, cache, now, svc>>

\* the broker relays the oldest packet to the instance that did not publish
\* it, whose adapter delivers it to the members of the room connected to it
brokerRelay ==
  /\ broker # <<>>
  /\ LET p == Head(broker)
         h == 3 - p.from
     IN /\ broker' = Tail(broker)
        /\ Note("relay", 0, p.sid, InstanceName(p.from),
                   <<Emit("event", MembersOn(h, SessionRoom(p.sid)), p.sid,
                          InstanceName(h), "", FALSE)>>)
  /\ UNCHANGED <<adapterVars, inboundVars, sockets, rooms, listening,
                 connectionCount, allocated, creator, execs, started, down,
                 rows, cache, now, svc>>

\* ----------------------------------------------------------------- shutdown
\* the calls OpenClawServer.shutdown() makes, in the order of its code; the
\* second to the fifth are those of OpenClawGateway.shutdown()
Stages == <<"server.close", "io.emit", "io.close", "pubClient.quit",
            "subClient.quit", "channelManager.shutdown", "database.end",
            "redis.quit">>

GatewayStages == {"io.emit", "io.close", "pubClient.quit", "subClient.quit"}

\* the outcomes of a call: an awaited quit(), end() or shutdown() can
\* reject; io.emit and io.close return; server.close() hands an error to its
\* callback only when the server is not listening, and the signal handlers
\* that call shutdown() are registered after start() has resolved
Outcomes(stage) ==
  IF stage \in {"server.close", "io.emit", "io.close"} THEN {TRUE} ELSE BOOLEAN

\* the client connections the HTTP server holds
LiveClients == {s \in SockIds : sockets[s].st \notin {"new", "closed"}}

\* whether a call can return now: http.Server.close() stops accepting
\* connections and calls its callback once every connection it holds has
\* ended
CanReturn(stage) == stage = "server.close" => LiveClients = {}

\* the process has not exited
Running == ~down.exited

\* the handler of the first SIGTERM or SIGINT calls shutdown():
\* isShuttingDown is set and server.close() is the first call
shutdown ==
  /\ down.pc = 0
  /\ down' = [down EXCEPT !.pc = 1]
  /\ UNCHANGED <<adapterVars, inboundVars, gatewayVars, broker, rows, cache, now, svc>>

\* what a stage does to the gateway's clients: io.close() disconnects every
\* socket, whose disconnect handler runs
StageEffect(stage) ==
  IF stage = "io.close"
  THEN /\ sockets' = [s \in SockIds |->
                       IF Connected(s)
                       THEN [sockets[s] EXCEPT !.st = "closed", !.data = NoUser]
                       ELSE sockets[s]]
       /\ rooms' = [s \in SockIds |-> {}]
       /\ listening' = [s \in SockIds |-> FALSE]
       /\ connectionCount' = connectionCount - Cardinality({s \in SockIds : Connected(s)})
  ELSE UNCHANGED <<sockets, rooms, listening, connectionCount>>

\* the sockets a stage's event reaches: io.emit('server.shutdown') reaches
\* every connected socket
Notified(stage) == IF stage = "io.emit" THEN {s \in SockIds : Connected(s)} ELSE {}

\* one call of the shutdown sequence returns or fails. Neither shutdown()
\* has a try/catch around a single call: a failure leaves
\* OpenClawGateway.shutdown() and reaches the catch of
\* OpenClawServer.shutdown(), which logs and throws again
shutdownStage ==
  /\ Running
  /\ down.pc \in DOMAIN Stages
  /\ CanReturn(Stages[down.pc])
  /\ \E ok \in Outcomes(Stages[down.pc]) :
       /\ down' = [pc |-> IF ok THEN down.pc + 1 ELSE Len(Stages) + 1,
                   threw |-> ~ok,
                   did |-> Append(down.did, [stage |-> Stages[down.pc], ok |-> ok,
                                             to |-> Notified(Stages[down.pc])]),
                   exited |-> FALSE]
       /\ StageEffect(Stages[down.pc])
  /\ gw' = Quiet
  /\ UNCHANGED <<adapterVars, inboundVars, allocated, creator, execs, started,
                 broker, rows, cache, now, svc>>

\* the handler of a SIGTERM or SIGINT that arrives after shutdown() was
\* called: its shutdown() returns at once ('Shutdown already in progress')
\* and the handler calls process.exit(0)
signalDuringShutdown ==
  /\ Running
  /\ down.pc > 0
  /\ down' = [down EXCEPT !.exited = TRUE]
  /\ UNCHANGED <<adapterVars, inboundVars, gatewayVars, broker, rows, cache, now, svc>>

\* the handler of the first signal after its await: shutdown() resolved and
\* process.exit(0) is called (a shutdown() that threw rejects the handler,
\* which is logged as an unhandled rejection)
processExit ==
  /\ Running
  /\ down.pc = Len(Stages) + 1
  /\ ~down.threw
  /\ down' = [down EXCEPT !.exited = TRUE]
  /\ UNCHANGED <<adapterVars, inboundVars, gatewayVars, broker, rows, cache, now, svc>>

\* --------------------------------------------------------- ChannelEncryption
\* a configuration object is a set of <<property, value>> pairs with one
\* value for a property
ConfigKeys == {"token", "secret"}

KeyOrder == <<"token", "secret">>

Undefined == "undefined"

ConfigValues == {"a", "b"}

Objects ==
  {x \in SUBSET (ConfigKeys \X (ConfigValues \cup {Undefined})) :
     \A p, q \in x : p[1] = q[1] => p = q}

\* the configurations JSON can express: no property is undefined
ValidConfigs == {x \in Objects : \A p \in x : p[2] # Undefined}

\* JSON.stringify of an object: its properties in order, those whose value is
\* undefined left out
JSONstringify(x) ==
  LET all == [i \in DOMAIN KeyOrder |->
                IF \E p \in x : p[1] = KeyOrder[i]
                THEN CHOOSE p \in x : p[1] = KeyOrder[i]
                ELSE <<KeyOrder[i], Undefined>>]
  IN SelectSeq(all, LAMBDA p : p[2] # Undefined)

\* what a wrong key stream makes of a byte
Garbled == <<"?", "?">>

\* JSON.parse of a decrypted text
JSONparse(text) == {text[i] : i \in DOMAIN text}

\* the values crypto.randomBytes(16) draws
Nonces == {"n1", "n2"}

\* AES-256-GCM under this.key: a byte of the ciphertext is the byte of the
\* plaintext under the key stream of the nonce at its position
Cipher(pt, iv) == [i \in DOMAIN pt |-> [p |-> pt[i], iv |-> iv, at |-> i]]

Decipher(ct, iv) ==
  [i \in DOMAIN ct |-> IF ct[i].iv = iv /\ ct[i].at = i THEN ct[i].p ELSE Garbled]

\* the authentication tag of a nonce and a ciphertext under this.key
Mac(iv, ct) == [iv |-> iv, data |-> ct]

\* the tag lengths (bytes) setAuthTag accepts for GCM when createDecipheriv
\* is given no authTagLength; getAuthTag returns the longest
AuthTagLengths == {4, 8, 12, 13, 14, 15, 16}

FullTag == CHOOSE n \in AuthTagLengths : \A m \in AuthTagLengths : m <= n

\* buffer.toString('hex'); `junk`: characters that are not hex digits follow
ToHex(b) == [bytes |-> b, junk |-> FALSE, present |-> TRUE]

\* Buffer.from(text, 'hex') decodes up to the first character that is not a
\* hex digit
FromHex(h) == h.bytes

\* encrypt that computes the tag before it has the ciphertext
encryptTagFirst(x, nonce) ==
  [json |-> TRUE,
   iv |-> ToHex(nonce),
   data |-> ToHex(Cipher(JSONstringify(x), nonce)),
   authTag |-> ToHex([mac |-> Mac(nonce, <<>>), len |-> FullTag])]

\* ChannelEncryption.encrypt, for the nonce it draws
encrypt(x, nonce) ==
  [json |-> TRUE,
   iv |-> ToHex(nonce),
   data |-> ToHex(Cipher(JSONstringify(x), nonce)),
   authTag |-> ToHex([mac |-> Mac(nonce, Cipher(JSONstringify(x), nonce)),
                      len |-> FullTag])]

\* decrypt threw
Thrown == [ok |-> FALSE, value |-> {}]

\* ChannelEncryption.decrypt: JSON.parse of the record, setAuthTag, final()
\* that compares the tag over as many bytes as were given, JSON.parse of the
\* plaintext
decrypt(e) ==
  IF ~e.json \/ ~e.iv.present \/ ~e.data.present \/ ~e.authTag.present
  THEN Thrown
  ELSE LET iv == FromHex(e.iv)
           ct == FromHex(e.data)
           tag == FromHex(e.authTag)
           pt == Decipher(ct, iv)
       IN IF tag.len \notin AuthTagLengths THEN Thrown
          ELSE IF tag.mac # Mac(iv, ct) THEN Thrown
          ELSE IF \E i \in DOMAIN pt : pt[i] = Garbled THEN Thrown
          ELSE [ok |-> TRUE, value |-> JSONparse(pt)]

\* the records an altered nonce, ciphertext or tag is taken from
Others == {encrypt(y, n) : y \in {{}, {<<"token", "a">>}}, n \in Nonces}

\* the records that differ from e in the nonce, the ciphertext or the tag,
\* and the malformed records
Altered(e) ==
  LET tag == FromHex(e.authTag)
      others == Others \ {e}
  IN {[e EXCEPT !.iv = o.iv] : o \in {o \in others : o.iv # e.iv}}
     \cup {[e EXCEPT !.data = o.data] : o \in {o \in others : o.data # e.data}}
     \cup {[e EXCEPT !.authTag = o.authTag] : o \in {o \in others : o.authTag # e.authTag}}
     \cup {[e EXCEPT !.authTag = ToHex([tag EXCEPT !.len = n])] :
             n \in (AuthTagLengths \cup {2}) \ {tag.len}}
     \cup {[e EXCEPT !.iv.junk = TRUE], [e EXCEPT !.data.junk = TRUE],
            [e EXCEPT !.authTag.junk = TRUE]}
     \cup {[e EXCEPT !.json = FALSE], [e EXCEPT !.iv.present = FALSE],
            [e EXCEPT !.data.present = FALSE], [e EXCEPT !.authTag.present = FALSE]}

\* a configuration is encrypted and the record decrypted again
encryptThenDecrypt ==
  /\ \E x \in ValidConfigs, nonce \in Nonces :
       svc' = [op |-> "encrypt", config |-> x, nonce |-> nonce,
               text |-> encrypt(x, nonce), result |-> decrypt(encrypt(x, nonce))]
  /\ UNCHANGED <<adapterVars, inboundVars, gatewayVars, broker, down, rows, cache, now>>

\* a record that encrypt produced comes back altered and is decrypted
decryptAltered ==
  /\ \E x \in ValidConfigs, nonce \in Nonces :
       \E t \in Altered(encrypt(x, nonce)) :
         svc' = [op |-> "decrypt", config |-> x, nonce |-> nonce,
                 text |-> t, result |-> decrypt(t)]
  /\ UNCHANGED <<adapterVars, inboundVars, gatewayVars, broker, down, rows, cache, now>>

\* --------------------------------------------------------- ChannelRepository
\* the channel_id values the database gives to new rows, in this order, and
\* the channel identifier each of these channels is created with
ChannelIds == <<"ch1", "ch2">>

Identifiers == <<"p1", "p2">>

\* the configurations the repository is called with
RepoConfigs == {{<<"token", "a">>}}

\* a row that was deleted
Gone == [stored |-> FALSE]

Stored(i) == i \in DOMAIN rows /\ rows[i].stored

\* WHERE channel_id = ch AND organization_id = org
Match(i, ch, org) == Stored(i) /\ ChannelIds[i] = ch /\ rows[i].org = org

\* the rows of the table, oldest first
RowIds == [i \in DOMAIN rows |-> i]

Reverse(q) == [i \in DOMAIN q |-> q[Len(q) + 1 - i]]

\* history of a repository call: the method, its channel id (or identifier)
\* and organization, the rows it returned
Called(op, ch, org, out) == svc' = [op |-> op, ch |-> ch, org |-> org, out |-> out]

RepoFrame == UNCHANGED <<adapterVars, inboundVars, gatewayVars, broker, down, cache, now>>

\* create: the configuration is encrypted and the row inserted, active and
\* disconnected. Of a row's columns the model keeps organization_id, active,
\* channel_config and connection_status.
create ==
  /\ Len(rows) < Len(ChannelIds)
  /\ \E org \in Orgs, config \in RepoConfigs, nonce \in Nonces :
       /\ rows' = Append(rows, [stored |-> TRUE, org |-> org, active |-> TRUE,
                                config |-> encrypt(config, nonce),
                                status |-> DISCONNECTED])
       /\ Called("create", ChannelIds[Len(rows) + 1], org, <<Len(rows) + 1>>)
  /\ RepoFrame

findById ==
  /\ \E i \in DOMAIN ChannelIds, org \in Orgs :
       Called("findById", ChannelIds[i], org,
              SelectSeq(RowIds, LAMBDA j : Match(j, ChannelIds[i], org) /\ rows[j].active))
  /\ UNCHANGED rows
  /\ RepoFrame

\* the first row of the organization with the identifier, if any
findByTypeAndIdentifier ==
  /\ \E k \in DOMAIN Identifiers, org \in Orgs :
       LET found == SelectSeq(RowIds, LAMBDA j : /\ Stored(j)
                                     /\ rows[j].org = org
                                     /\ Identifiers[j] = Identifiers[k]
                                     /\ rows[j].active)
       IN Called("findByTypeAndIdentifier", Identifiers[k], org,
                 IF found = <<>> THEN <<>> ELSE <<found[1]>>)
  /\ UNCHANGED rows
  /\ RepoFrame

\* ORDER BY created_at DESC
listByOrganization ==
  /\ \E org \in Orgs :
       Called("listByOrganization", "", org,
              Reverse(SelectSeq(RowIds, LAMBDA j : Stored(j) /\ rows[j].org = org /\ rows[j].active)))
  /\ UNCHANGED rows
  /\ RepoFrame

\* updateConfig that stores the JSON text of the configuration, not
\* enciphered under any nonce
updateConfigPlain ==
  /\ \E i \in DOMAIN ChannelIds, org \in Orgs, config \in RepoConfigs, nonce \in Nonces :
       /\ rows' = [j \in DOMAIN rows |->
                     IF Match(j, ChannelIds[i], org)
                     THEN [rows[j] EXCEPT !.config = [encrypt(config, nonce) EXCEPT !.data = ToHex(Cipher(JSONstringify(config), ""))]]
                     ELSE rows[j]]
       /\ Called("updateConfig", ChannelIds[i], org,
                 SelectSeq(RowIds, LAMBDA j : Match(j, ChannelIds[i], org)))
  /\ RepoFrame

\* updateConfig: the configuration is encrypted and written to the row of
\* the channel in the organization, which is returned; without such a row
\* the call throws and returns nothing
updateConfig ==
  /\ \E i \in DOMAIN ChannelIds, org \in Orgs, config \in RepoConfigs, nonce \in Nonces :
       /\ rows' = [j \in DOMAIN rows |->
                     IF Match(j, ChannelIds[i], org)
                     THEN [rows[j] EXCEPT !.config = encrypt(config, nonce)]
                     ELSE rows[j]]
       /\ Called("updateConfig", ChannelIds[i], org,
                 SelectSeq(RowIds, LAMBDA j : Match(j, ChannelIds[i], org)))
  /\ RepoFrame

updateStatus ==
  /\ \E i \in DOMAIN ChannelIds, org \in Orgs, st \in {CONNECTED, ERROR, DISCONNECTED} :
       /\ rows' = [j \in DOMAIN rows |->
                     IF Match(j, ChannelIds[i], org)
                     THEN [rows[j] EXCEPT !.status = st]
                     ELSE rows[j]]
       /\ Called("updateStatus", ChannelIds[i], org, <<>>)
  /\ RepoFrame

\* sets message_count and last_message_at, columns the model does not keep
incrementMessageCount ==
  /\ \E i \in DOMAIN ChannelIds, org \in Orgs :
       Called("incrementMessageCount", ChannelIds[i], org, <<>>)
  /\ UNCHANGED rows
  /\ RepoFrame

\* sets verified, a column the model does not keep, and connection_status
markVerified ==
  /\ \E i \in DOMAIN ChannelIds, org \in Orgs :
       /\ rows' = [j \in DOMAIN rows |->
                     IF Match(j, ChannelIds[i], org)
                     THEN [rows[j] EXCEPT !.status = CONNECTED]
                     ELSE rows[j]]
       /\ Called("markVerified", ChannelIds[i], org, <<>>)
  /\ RepoFrame

\* deactivate that leaves out the channel id of its WHERE clause
deactivateWholeOrganization ==
  /\ \E i \in DOMAIN ChannelIds, org \in Orgs :
       /\ rows' = [j \in DOMAIN rows |->
                     IF Stored(j) /\ rows[j].org = org
                     THEN [rows[j] EXCEPT !.active = FALSE, !.status = DISCONNECTED]
                     ELSE rows[j]]
       /\ Called("deactivate", ChannelIds[i], org, <<>>)
  /\ RepoFrame

deactivate ==
  /\ \E i \in DOMAIN ChannelIds, org \in Orgs :
       /\ rows' = [j \in DOMAIN rows |->
                     IF Match(j, ChannelIds[i], org)
                     THEN [rows[j] EXCEPT !.active = FALSE, !.status = DISCONNECTED]
                     ELSE rows[j]]
       /\ Called("deactivate", ChannelIds[i], org, <<>>)
  /\ RepoFrame

delete ==
  /\ \E i \in DOMAIN ChannelIds, org \in Orgs :
       /\ rows' = [j \in DOMAIN rows |->
                     IF Match(j, ChannelIds[i], org)
                     THEN Gone
                     ELSE rows[j]]
       /\ Called("delete", ChannelIds[i], org, <<>>)
  /\ RepoFrame

\* ----------------------------------------------------------- NexusAuthClient
cacheTTL == 300

\* the tokens clients present. t1 and t2 were issued by the identity service
\* and t4 was issued without an expiry time; t3 was not issued by it: it is
\* the header and payload of t2 followed by a signature that ends in the last
\* 16 characters of t1.
AuthTokens == {"t1", "t2", "t3", "t4"}

Issued(token) == token # "t3"

\* the user a token's payload names
Subject(token) == IF token \in {"t1", "t4"} THEN "alice" ELSE "bob"

\* jwt.decode(token).exp, in seconds; 0 when the payload has none
decodeToken(token) ==
  CASE token = "t1" -> 3
    [] token \in {"t2", "t3"} -> 1
    [] OTHER -> 0

\* token.slice(-16)
getCacheKey(token) ==
  CASE token \in {"t1", "t3"} -> "k1"
    [] token = "t2" -> "k2"
    [] OTHER -> "k4"

\* redis.get: the entry set under the key whose time to live has not run out
RedisGet(key) == {e \in cache : e.key = key /\ now < e.until}

RedisDel(key) == {e \in cache : e.key # key}

\* exp && exp < Date.now() / 1000
Expired(exp, at) == exp # 0 /\ exp < at

\* getCachedToken: the users it returns (none when it returns null) and the
\* cache it leaves
getCachedToken(token) ==
  LET found == RedisGet(getCacheKey(token))
  IN IF found = {}
     THEN [users |-> {}, cache |-> cache]
     ELSE IF \E e \in found : Expired(e.exp, now)
          THEN [users |-> {}, cache |-> RedisDel(getCacheKey(token))]
          ELSE [users |-> {e.user : e \in found}, cache |-> cache]

\* cacheToken: setex with the floor of the time to live, which Redis refuses
\* when it is not positive (the error is caught and logged)
cacheToken(token, user, exp, from) ==
  LET ttl == IF exp # 0 /\ exp - now < cacheTTL THEN exp - now ELSE cacheTTL
  IN IF ttl <= 0
     THEN from
     ELSE {e \in from : e.key # getCacheKey(token)}
            \cup {[key |-> getCacheKey(token), user |-> user, exp |-> exp,
                   until |-> now + ttl]}

\* what POST /v1/auth/validate can answer for a token
ServiceAnswers(token) ==
  IF Issued(token) /\ ~Expired(decodeToken(token), now)
  THEN {"valid", "unavailable"}
  ELSE {"invalid", "unavailable"}

\* history of a validateToken call: the token, the time of the call,
\* whether a user was returned and which
Validated(token, ok, user) ==
  svc' = [op |-> "validateToken", token |-> token, at |-> now, ok |-> ok, user |-> user]

AuthFrame == UNCHANGED <<adapterVars, inboundVars, gatewayVars, broker, down, rows>>

\* NexusAuthClient.validateToken: the cached user if there is one; otherwise the token is
\* decoded and refused when it has expired, and otherwise the identity
\* service is asked and its user cached
authValidateToken ==
  /\ \E token \in AuthTokens :
       LET cached == getCachedToken(token)
       IN IF cached.users # {}
          THEN /\ Validated(token, TRUE, CHOOSE u \in cached.users : TRUE)
               /\ cache' = cached.cache
          ELSE IF Expired(decodeToken(token), now)
               THEN /\ Validated(token, FALSE, "")
                    /\ cache' = cached.cache
               ELSE \E answer \in ServiceAnswers(token) :
                      IF answer = "valid"
                      THEN /\ Validated(token, TRUE, Subject(token))
                           /\ cache' = cacheToken(token, Subject(token),
                                                  decodeToken(token), cached.cache)
                      ELSE /\ Validated(token, FALSE, "")
                           /\ cache' = cached.cache
  /\ UNCHANGED now
  /\ AuthFrame

invalidateToken ==
  /\ \E token \in AuthTokens :
       /\ cache' = RedisDel(getCacheKey(token))
       /\ svc' = [op |-> "invalidateToken", token |-> token, at |-> now,
                  ok |-> TRUE, user |-> ""]
  /\ UNCHANGED now
  /\ AuthFrame

\* a second passes; Redis drops the entries whose time to live has run out
Second ==
  /\ now < MaxNow
  /\ now' = now + 1
  /\ cache' = {e \in cache : now + 1 < e.until}
  /\ UNCHANGED svc
  /\ AuthFrame

\* ------------------------------------------------------------ specifications
Next ==
  \/ WhatsAppConnect
  \/ WhatsAppConnectResume
  \/ WhatsAppTimer
  \/ WhatsAppOpen
  \/ WhatsAppClose
  \/ WhatsAppDisconnect
  \/ WhatsAppDisconnectResume
  \/ TelegramConnect
  \/ TelegramConnectResume
  \/ TelegramDisconnect
  \/ TelegramDisconnectResume
  \/ DiscordConnect
  \/ DiscordConnectResume
  \/ DiscordShardDisconnect
  \/ attemptReconnect
  \/ DiscordDisconnect
  \/ DiscordDisconnectResume

\* the adapters' life cycle, each step recorded in `last`
Spec == Init /\ [][Next]_vars

NextSend == Next \/ sendMessage

\* the same life cycle with sendMessage() calls, which alone are recorded
SpecSend == InitSend /\ [][NextSend]_vars

\* an adapter that connect() has connected: one open connection, polled by
\* the runner unless the Telegram adapter uses a webhook
InitConnected ==
  /\ variant \in Variants
  /\ webhookUrl \in (IF variant = "telegram" THEN BOOLEAN ELSE {FALSE})
  /\ status = CONNECTED
  /\ conn = 1
  /\ conns = [c \in ConnIds |-> IF c = 1 THEN "open" ELSE "closed"]
  /\ runner = (IF variant = "telegram" /\ ~webhookUrl THEN 1 ELSE 0)
  /\ reconnectAttempts = 0
  /\ isShuttingDown = FALSE
  /\ timers = 0
  /\ awaiting = EmptyBag
  /\ messagesSent = 0
  /\ observing = "inbound"
  /\ sawConnecting = FALSE
  /\ sinceOpen = 0
  /\ exhausted = FALSE
  /\ cycle = 0
  /\ last = Unobserved
  /\ InitInbound /\ InitService
  /\ InitGateway

NextInbound ==
  \/ WhatsAppUpsert
  \/ WhatsAppDownloaded
  \/ WhatsAppSinkReturns
  \/ WhatsAppDisconnect
  \/ WhatsAppDisconnectResume
  \/ TelegramUpdate
  \/ TelegramSequentialized
  \/ TelegramGotFile
  \/ TelegramSinkReturns
  \/ TelegramDisconnect
  \/ TelegramDisconnectResume
  \/ DiscordMessageCreate
  \/ DiscordSinkReturns
  \/ DiscordDisconnect
  \/ DiscordDisconnectResume

\* the inbound handlers of a connected adapter, with disconnect() calls
SpecInbound == InitConnected /\ [][NextInbound]_vars

\* the gateway alone; the adapters stay as constructed
InitGatewayOnly ==
  /\ InitAdapter
  /\ variant = "whatsapp"
  /\ observing \in {"rooms", "create"}
  /\ InitInbound /\ InitService
  /\ InitGateway

NextGateway ==
  \/ AuthMiddleware
  \/ AuthMiddlewareResume
  \/ handleSessionCreate
  \/ handleSessionJoin
  \/ handleSessionLeave
  \/ handleMessageSend
  \/ handleDisconnect
  \/ broadcastToOrg
  \/ broadcastToUser

\* the gateway's clients: handshakes, session and message events,
\* disconnects, broadcasts; handshakes, disconnects and broadcasts are
\* recorded, or session.create
SpecGateway == InitGatewayOnly /\ [][NextGateway]_vars

\* the same, with session.join and session.leave recorded, or message.send
InitSession ==
  /\ InitAdapter
  /\ variant = "whatsapp"
  /\ observing \in {"join", "send"}
  /\ InitInbound /\ InitService
  /\ InitGateway

SpecSession == InitSession /\ [][NextGateway]_vars

\* the user each client of the skill specification has authenticated as
UserOf(s) == IF s % 2 = 1 THEN "alice" ELSE "bob"

\* the gateway after every client has connected with a valid token: each
\* socket is in the rooms of its organization and user, with its handlers
ConnectedClients ==
  /\ sockets = [s \in SockIds |->
                 [st |-> "connected", token |-> "none", validated |-> TRUE,
                  data |-> [userId |-> UserOf(s), organizationId |-> OrgOf(UserOf(s))]]]
  /\ rooms = [s \in SockIds |-> {OrgRoom(OrgOf(UserOf(s))), UserRoom(UserOf(s))}]
  /\ listening = [s \in SockIds |-> TRUE]
  /\ connectionCount = MaxSockets
  /\ allocated = 0
  /\ creator = <<>>
  /\ execs = <<>>
  /\ started = 0
  /\ gw = Quiet

InitSkill ==
  /\ InitAdapter
  /\ variant = "whatsapp"
  /\ observing = "skill"
  /\ InitInbound /\ InitService
  /\ ConnectedClients

\* connected clients that create, join and leave sessions and execute
\* skills; the skill executions alone are recorded
NextSkill ==
  \/ handleSessionCreate
  \/ handleSessionJoin
  \/ handleSessionLeave
  \/ handleSkillExecute
  \/ SkillStep

\* two gateway instances with their clients connected: sessions are created,
\* joined and left, clients disconnect, and either instance broadcasts to a
\* session's room
InitTwoInstances ==
  /\ InitAdapter
  /\ variant = "whatsapp"
  /\ observing = "broker"
  /\ InitInbound /\ InitService
  /\ ConnectedClients

NextTwoInstances ==
  \/ handleSessionCreate
  \/ handleSessionJoin
  \/ handleSessionLeave
  \/ handleDisconnect
  \/ broadcastToSession
  \/ brokerRelay

SpecTwoInstances == InitTwoInstances /\ [][NextTwoInstances]_vars

\* the server with its clients connected: sessions are created and joined,
\* clients disconnect, and shutdown() runs
InitShutdown ==
  /\ InitAdapter
  /\ variant = "whatsapp"
  /\ observing = "shutdown"
  /\ InitInbound /\ InitService
  /\ ConnectedClients

NextShutdown ==
  \/ Running /\ handleSessionCreate
  \/ Running /\ handleSessionJoin
  \/ Running /\ handleDisconnect
  \/ shutdown
  \/ shutdownStage
  \/ signalDuringShutdown
  \/ processExit

SpecShutdown == InitShutdown /\ [][NextShutdown]_vars

\* ChannelEncryption on its own: configurations are encrypted and decrypted,
\* altered records are decrypted
NextEncryption == encryptThenDecrypt \/ decryptAltered

InitEncryption ==
  /\ InitAdapter
  /\ variant = "whatsapp"
  /\ observing = "encryption"
  /\ InitInbound /\ InitService
  /\ InitGateway

SpecEncryption == InitEncryption /\ [][NextEncryption]_vars

\* the repository's callers, in any order
InitRepository ==
  /\ InitAdapter
  /\ variant = "whatsapp"
  /\ observing = "repository"
  /\ InitInbound /\ InitService
  /\ InitGateway

NextRepository ==
  \/ create
  \/ findById
  \/ findByTypeAndIdentifier
  \/ listByOrganization
  \/ updateConfig
  \/ updateStatus
  \/ incrementMessageCount
  \/ markVerified
  \/ deactivate
  \/ delete

SpecRepository == InitRepository /\ [][NextRepository]_vars

\* the auth client with its Redis cache set
InitAuth ==
  /\ InitAdapter
  /\ variant = "whatsapp"
  /\ observing = "auth"
  /\ InitInbound /\ InitService
  /\ InitGateway

NextAuth ==
  \/ authValidateToken
  \/ invalidateToken
  \/ Second

SpecAuth == InitAuth /\ [][NextAuth]_vars

\* the WhatsApp adapter with its disconnect/connect cycles recorded
InitCycle ==
  /\ InitAdapter
  /\ variant = "whatsapp"
  /\ observing = "cycle"
  /\ InitInbound /\ InitService
  /\ InitGateway

NextCycle ==
  \/ WhatsAppConnect
  \/ WhatsAppConnectResume
  \/ WhatsAppTimer
  \/ WhatsAppOpen
  \/ WhatsAppClose
  \/ WhatsAppDisconnect
  \/ WhatsAppDisconnectResume

SpecCycle == InitCycle /\ [][NextCycle]_vars

SpecSkill == InitSkill /\ [][NextSkill]_vars

\* ==================================================================== claims
ConnectOps == {"connect", "connectResume", "attemptReconnect"}

DisconnectOps == {"disconnect", "disconnectResume"}

\* C1: connect() on an adapter whose status is connected returns without
\* error, creates no connection object, emits no status change and leaves the
\* adapter's state as it was, however often it is repeated.
C1_ConnectWhenConnectedIsNoOp ==
  [][(status = CONNECTED /\ last'.op = "connect")
       => /\ last'.result = "ok"
          /\ last'.emitted = <<>>
          /\ last'.made = 0
          /\ UNCHANGED <<status, conn, conns, runner, reconnectAttempts,
                         isShuttingDown, timers, awaiting>>]_vars

C1_Witness ==
  /\ last.op = "connect"
  /\ last.status0 = CONNECTED
  /\ last.result = "ok"
  /\ conn # 0
  /\ conns[conn] = "open"

\* C2: the connected or error emission of a step of connect(), of an
\* automatic reconnect or of the platform's confirmation of the connection is
\* preceded by a connecting emission made since the last connected or
\* disconnected emission.
FirstSettled(ems) ==
  IF \E i \in DOMAIN ems : ems[i] \in {CONNECTED, ERROR}
  THEN CHOOSE i \in DOMAIN ems :
         /\ ems[i] \in {CONNECTED, ERROR}
         /\ \A j \in 1..(i - 1) : ems[j] \notin {CONNECTED, ERROR}
  ELSE 0

C2_ConnectingPrecedes ==
  (last.op \in ConnectOps \cup {"open"} /\ FirstSettled(last.emitted) # 0)
    => SawAfter(last.saw0, SubSeq(last.emitted, 1, FirstSettled(last.emitted) - 1))

\* C3: sendMessage called while the status is not connected fails with the
\* not-connected error, hands nothing to the platform and leaves messagesSent
\* as it was.
C3_SendFailsUnlessConnected ==
  (last.op = "sendMessage" /\ last.status0 # CONNECTED)
    => /\ last.result = "notConnected"
       /\ ~last.handed
       /\ messagesSent = last.sent0

C3_Witness ==
  /\ last.op = "sendMessage"
  /\ last.status0 = ERROR
  /\ last.result = "notConnected"
  /\ conn # 0
  /\ conns[conn] = "open"

\* C4: a disconnect() call that has run to its end did not throw and left the
\* status disconnected.
C4_DisconnectNeverThrows ==
  (last.op \in DisconnectOps /\ last.result # "pending")
    => /\ last.result = "ok"
       /\ status = DISCONNECTED

\* C5: the status changes along the specified edges only (each value the
\* status takes is handed to the status callback), and connected is not
\* emitted again while the status is connected.
Edges ==
  {<<DISCONNECTED, CONNECTING>>, <<CONNECTING, CONNECTED>>, <<CONNECTING, ERROR>>,
   <<CONNECTED, DISCONNECTED>>, <<CONNECTED, ERROR>>, <<ERROR, CONNECTING>>,
   <<ERROR, DISCONNECTED>>}

StatusPath == <<last.status0>> \o last.emitted

C5_OnlySpecifiedEdges ==
  \A i \in 1..(Len(StatusPath) - 1) :
    IF StatusPath[i] # StatusPath[i + 1]
    THEN <<StatusPath[i], StatusPath[i + 1]>> \in Edges
    ELSE StatusPath[i] # CONNECTED

\* C6: the k-th reconnect timer scheduled since the adapter was last connected
\* has the delay min(1000 * 2^(k-1), 30000) ms.
C6_BackoffDelay ==
  (last.op = "close" /\ last.delays # <<>>)
    => /\ sinceOpen >= 1
       /\ last.delays = <<Min(1000 * Pow2(sinceOpen - 1), 30000)>>

C6_Witness ==
  /\ last.op = "close"
  /\ sinceOpen = 6
  /\ last.delays = <<30000>>

\* C7: the attempt counter stays between 0 and the maximum, and no more than
\* the maximum of reconnect timers are scheduled between two arrivals at
\* connected.
C7_AttemptsBounded ==
  /\ reconnectAttempts \in 0..maxReconnectAttempts
  /\ sinceOpen \in 0..maxReconnectAttempts

C7_Witness ==
  /\ last.op = "close"
  /\ last.result = "exhausted"
  /\ reconnectAttempts = maxReconnectAttempts
  /\ sinceOpen = maxReconnectAttempts

\* C8: whenever the adapter reaches connected the attempt counter is zero, and
\* the first reconnect after it is scheduled with the initial delay of 1 s.
C8_CounterResetOnConnected ==
  /\ (last.op = "open" \/ (status = CONNECTED /\ last.status0 # CONNECTED))
       => reconnectAttempts = 0
  /\ (last.op = "close" /\ last.delays # <<>> /\ sinceOpen = 1)
       => (reconnectAttempts = 1 /\ last.delays = <<1000>>)

C8_Witness ==
  /\ last.op = "open"
  /\ last.arg = "retried"
  /\ status = CONNECTED
  /\ reconnectAttempts = 0

\* C9: once the reconnect budget has run out the status is error, the error
\* was reported, and until connect() or disconnect() is called the status
\* stays error and no reconnect timer is scheduled.
C9_ExhaustedIsTerminal ==
  exhausted
    => /\ status = ERROR
       /\ last.delays = <<>>
       /\ last.result = "exhausted" => last.emitted = <<ERROR>>

\* C10: a close with the logged-out reason, or any close after disconnect()
\* was called, starts no reconnect and leaves the status disconnected; every
\* other close starts exactly one reconnect while attempts remain.
C10_OnlyTransientReconnects ==
  last.op = "close"
    => IF last.arg = "loggedOut" \/ isShuttingDown
       THEN /\ last.result # "reconnecting"
            /\ last.delays = <<>>
            /\ status = DISCONNECTED
       ELSE \/ last.result = "reconnecting" /\ (variant = "whatsapp" => Len(last.delays) = 1)
            \/ last.result = "exhausted" /\ last.delays = <<>>

\* C11: once disconnect() has been called, no reconnect timer scheduled
\* before it fires and creates a connection object.
C11_DisconnectCancelsTimer ==
  (last.op = "timer" /\ isShuttingDown) => last.made = 0

\* the inbound messages delivered so far, each named by its callback and its
\* position in the callback's batch
Events == {e \in (DOMAIN calls) \X (1..MaxEvents) : e[2] <= Len(calls[e[1]].msgs)}

Ev(e) == calls[e[1]].msgs[e[2]]

\* the handler is through with the message
Finished(e) == calls[e[1]].pc = "done" \/ calls[e[1]].i > e[2]

\* C12: a payload without a mapping is never handed to onMessage, no error is
\* counted or raised for it, and messagesReceived counts the forwarded
\* messages only.
C12_UnmappedIsDropped ==
  /\ \A e \in Events : Ev(e).kind = "unmapped" => (Ev(e).n = 0 /\ Ev(e).err = "no")
  /\ messagesReceived = Cardinality({e \in Events : Ev(e).n > 0})

C12_Witness ==
  \E e, f \in Events :
    /\ e[1] = f[1]
    /\ Ev(e).kind = "unmapped"
    /\ Finished(e)
    /\ Ev(f).n = 1
    /\ messagesReceived = 1

\* the message is one the adapter has to forward: it came in a notify batch,
\* is not of the adapter's own account, has a mapping, and its conversion did
\* not fail
Normalizes(e) ==
  /\ calls[e[1]].notify
  /\ Ev(e).kind \in {"text", "media"}
  /\ Ev(e).err # "convert"

Before(e, f) == e[1] < f[1] \/ (e[1] = f[1] /\ e[2] < f[2])

\* C14: when onMessage is called for a message, the onMessage calls of the
\* earlier messages of the same chat that the adapter forwards have returned.
C14_PerConversationOrder ==
  \A e, f \in Events :
    (Before(e, f) /\ Ev(e).chat = Ev(f).chat /\ Normalizes(e) /\ Ev(f).called # 0)
      => (Ev(e).returned # 0 /\ Ev(e).returned < Ev(f).called)

\* C15: a socket that is in any room or has event handlers registered has
\* passed token validation and carries the validated user's data; a socket
\* whose handshake was refused is in no room and has no handlers.
C15_RejectedBeforeJoin ==
  \A s \in SockIds :
    /\ (rooms[s] # {} \/ listening[s])
         => (sockets[s].validated /\ sockets[s].data # NoUser /\ Connected(s))
    /\ sockets[s].st \in {"new", "auth", "rejected"}
         => (rooms[s] = {} /\ ~listening[s] /\ ~sockets[s].validated)

C15_Witness ==
  /\ gw.op = "connect"
  /\ gw.content = "Invalid or expired token"
  /\ sockets[gw.sock].st = "rejected"
  /\ \E r \in SockIds : Connected(r) /\ rooms[r] # {} /\ listening[r]

\* the rooms of one kind a socket is in
RoomsOf(s, kind) == {r \in rooms[s] : r.kind = kind}

\* C16: a connected socket is in exactly one org room and one user room, those
\* of its validated identity, whatever session events it has sent; a socket
\* that is not connected is in no room; broadcastToOrg and broadcastToUser
\* deliver to exactly the connected sockets of that organization or user.
C16_OrgAndUserRooms ==
  /\ \A s \in SockIds :
       IF Connected(s)
       THEN /\ RoomsOf(s, "org") = {OrgRoom(sockets[s].data.organizationId)}
            /\ RoomsOf(s, "user") = {UserRoom(sockets[s].data.userId)}
       ELSE rooms[s] = {}
  /\ gw.op = "broadcastToOrg"
       => gw.out[1].to = {s \in SockIds : Connected(s) /\ sockets[s].data.organizationId = gw.sid}
  /\ gw.op = "broadcastToUser"
       => gw.out[1].to = {s \in SockIds : Connected(s) /\ sockets[s].data.userId = gw.sid}

C16_Witness ==
  /\ gw.op = "broadcastToOrg"
  /\ \E s, r \in SockIds :
       /\ s \in gw.out[1].to
       /\ RoomsOf(s, "session") # {}
       /\ Connected(r)
       /\ r \notin gw.out[1].to
       /\ RoomsOf(r, "session") = RoomsOf(s, "session")

\* C17: a socket is a member of a session's room only if its organization is
\* the one whose client created the session.
C17_SessionsScopedByTenant ==
  \A s \in SockIds, i \in 1..allocated :
    SessionRoom(SessionName(i)) \in rooms[s]
      => creator[i] = sockets[s].data.organizationId

\* C18: session.create takes an id not handed out before, the requester is in
\* the session's room when session.created is emitted, session.created is
\* emitted once and to the requester alone, and session.new goes to the
\* connected sockets of the requester's organization and to no other.
C18_SessionCreate ==
  gw.op = "session.create"
    => /\ gw.sid = SessionName(allocated)
       /\ \A i \in 1..(allocated - 1) : SessionName(i) # gw.sid
       /\ ~gw.member0
       /\ SessionRoom(gw.sid) \in rooms[gw.sock]
       /\ Len(gw.out) = 2
       /\ gw.out[1].ev = "session.created"
       /\ gw.out[1].to = {gw.sock}
       /\ gw.out[1].sid = gw.sid
       /\ gw.out[1].joined
       /\ gw.out[2].ev = "session.new"
       /\ gw.out[2].sid = gw.sid
       /\ gw.out[2].to = {s \in SockIds :
                            /\ Connected(s)
                            /\ sockets[s].data.organizationId
                                 = sockets[gw.sock].data.organizationId}

C18_Witness ==
  /\ gw.op = "session.create"
  /\ allocated = 2
  /\ gw.sid = "s2"
  /\ \E r \in SockIds : Connected(r) /\ r \notin gw.out[2].to

\* C19: session.join by a socket that is in the session's room already, and
\* session.leave by a socket that is not in it, change no socket's rooms;
\* after session.join the socket is in the room, after session.leave it is
\* not, and no other room of any socket changes.
C19_JoinLeaveIdempotent ==
  [][/\ gw'.op = "session.join"
          => /\ rooms' = [rooms EXCEPT ![gw'.sock] = @ \cup {SessionRoom(gw'.sid)}]
             /\ gw'.member0 => rooms' = rooms
     /\ gw'.op = "session.leave"
          => /\ rooms' = [rooms EXCEPT ![gw'.sock] = @ \ {SessionRoom(gw'.sid)}]
             /\ ~gw'.member0 => rooms' = rooms]_vars

C19_Witness ==
  /\ gw.op = "session.leave"
  /\ ~gw.member0
  /\ \E r \in SockIds : SessionRoom(gw.sid) \in rooms[r]

\* the emissions of the last step that deliver event ev of session sid to s
Got(s, ev, sid) ==
  {i \in DOMAIN gw.out : gw.out[i].ev = ev /\ gw.out[i].sid = sid /\ s \in gw.out[i].to}

\* C20: message.send makes every socket in the session's room (the sender
\* too when it is in it) receive message.received once, with the session id,
\* role user and the content sent, and no other socket receive it; then the
\* sender receives message.sent once, with the session id and status
\* delivered.
C20_MessageSend ==
  gw.op = "message.send"
    => /\ \A s \in SockIds :
            /\ Cardinality(Got(s, "message.received", gw.sid))
                 = (IF SessionRoom(gw.sid) \in rooms[s] THEN 1 ELSE 0)
            /\ \A i \in Got(s, "message.received", gw.sid) :
                 gw.out[i].tag = "user" /\ gw.out[i].content = gw.content
            /\ Cardinality(Got(s, "message.sent", gw.sid))
                 = (IF s = gw.sock THEN 1 ELSE 0)
       /\ \A i \in Got(gw.sock, "message.sent", gw.sid) :
            /\ gw.out[i].tag = "delivered"
            /\ \A j \in DOMAIN gw.out : gw.out[j].ev = "message.received" => j < i

C20_Witness ==
  /\ gw.op = "message.send"
  /\ gw.member0
  /\ gw.content = "c2"
  /\ \E r \in SockIds : r # gw.sock /\ r \in gw.out[1].to

\* the events of a skill execution's life cycle
SkillEvents == {"skill.started", "skill.progress", "skill.completed", "skill.error"}

\* the names of the life-cycle events among the emissions of a step, in order
Lifecycle(out) ==
  LET sel == SelectSeq(out, LAMBDA x : x.ev \in SkillEvents)
  IN [k \in 1..Len(sel) |-> sel[k].ev]

\* skill.started, then skill.progress only
InProgress(l) ==
  /\ Len(l) >= 1
  /\ l[1] = "skill.started"
  /\ \A k \in 2..Len(l) : l[k] = "skill.progress"

\* skill.started, then skill.progress only, then one terminal event
Complete(l) ==
  /\ Len(l) >= 2
  /\ InProgress(SubSeq(l, 1, Len(l) - 1))
  /\ l[Len(l)] \in {"skill.completed", "skill.error"}

Attempted == [k \in DOMAIN down.did |-> down.did[k].stage]

\* the shutdown has ended, by returning or by throwing
ShutdownOver == down.pc = Len(Stages) + 1

\* C23: once the gateway's shutdown has begun and the shutdown is over, the
\* shutdown notice, the close of the transport and the quit of both broker
\* connections have all been attempted, in this order, whichever of them
\* failed.
C23_GatewayStepsGuarded ==
  (ShutdownOver /\ \E k \in DOMAIN Attempted : Attempted[k] = "io.emit")
    => SelectSeq(Attempted, LAMBDA st : st \in GatewayStages)
         = <<"io.emit", "io.close", "pubClient.quit", "subClient.quit">>

\* the position of a stage among the stages attempted, 0 when it was not
Pos(stage) ==
  IF \E k \in DOMAIN Attempted : Attempted[k] = stage
  THEN CHOOSE k \in DOMAIN Attempted : Attempted[k] = stage
  ELSE 0

\* C24: when the shutdown is over every stage has been attempted, whichever
\* of them failed: the HTTP server was closed first, then the clients were
\* notified, then the adapters were disconnected, then the database and the
\* broker connection were released.
C24_AllStagesAttempted ==
  ShutdownOver
    => /\ \A k \in DOMAIN Stages : Pos(Stages[k]) > 0
       /\ Pos("server.close") < Pos("io.emit")
       /\ Pos("io.emit") < Pos("channelManager.shutdown")
       /\ Pos("channelManager.shutdown") < Pos("database.end")
       /\ Pos("channelManager.shutdown") < Pos("redis.quit")

\* C25: decrypting what encrypt made of a configuration gives the
\* configuration back, whichever nonce encrypt drew.
C25_RoundTrip ==
  svc.op = "encrypt" => svc.result = [ok |-> TRUE, value |-> svc.config]

C25_Witness ==
  /\ svc.op = "encrypt"
  /\ Cardinality(svc.config) = 2
  /\ svc.nonce = "n2"
  /\ svc.result.ok

\* C26: decrypt of a record whose nonce, ciphertext or tag was altered, or of
\* a malformed record, throws.
C26_FailsClosed ==
  svc.op = "decrypt" => ~svc.result.ok

\* what encrypt can return
Encrypted == {encrypt(x, nonce) : x \in ValidConfigs, nonce \in Nonces}

\* C27: the stored configuration column of every row is an output of
\* encrypt, and a step that stores a row or changes a row's configuration
\* column is a step of create or of updateConfig.
C27_ConfigStoredEncrypted ==
  [][ \A i \in DOMAIN rows' :
        rows'[i].stored
          => /\ rows'[i].config \in Encrypted
             /\ (i \notin DOMAIN rows) => svc'.op = "create"
             /\ (i \in DOMAIN rows /\ rows'[i].config # rows[i].config)
                  => svc'.op = "updateConfig" ]_vars

C27_Witness ==
  /\ svc.op = "updateConfig"
  /\ Len(svc.out) = 1
  /\ rows[svc.out[1]].config.iv = ToHex("n2")
  /\ ~rows[svc.out[1]].active
  /\ \E j \in DOMAIN rows : Stored(j) /\ rows[j].config.iv = ToHex("n1")

Finders == {"findById", "findByTypeAndIdentifier", "listByOrganization"}

\* C28: a deactivate step leaves the row of its channel and organization
\* stored with active = false and changes no other row; a row that is not
\* active stays so while it is stored; the finders return only active rows of
\* the organization asked for; a row leaves the table only in a delete step
\* for its channel and organization.
C28_DeactivateSoftScoped ==
  [][ /\ svc'.op = "deactivate"
        => /\ Len(rows') = Len(rows)
           /\ \A i \in DOMAIN rows :
                IF Match(i, svc'.ch, svc'.org)
                THEN rows'[i] = [rows[i] EXCEPT !.active = FALSE, !.status = DISCONNECTED]
                ELSE rows'[i] = rows[i]
      /\ \A i \in DOMAIN rows :
           /\ (Stored(i) /\ ~rows[i].active /\ rows'[i].stored) => ~rows'[i].active
           /\ (Stored(i) /\ ~rows'[i].stored)
                => svc'.op = "delete" /\ Match(i, svc'.ch, svc'.org)
      /\ svc'.op \in Finders
           => \A k \in DOMAIN svc'.out :
                /\ rows'[svc'.out[k]].stored
                /\ rows'[svc'.out[k]].active
                /\ rows'[svc'.out[k]].org = svc'.org ]_vars

C28_Witness ==
  /\ svc.op = "deactivate"
  /\ \E i, j \in DOMAIN rows :
       /\ i # j
       /\ Match(i, svc.ch, svc.org)
       /\ ~rows[i].active
       /\ Stored(j) /\ rows[j].active /\ rows[j].org = rows[i].org

\* C29: validateToken returns no user for a token whose expiry time is
\* earlier than the time of the call.
C29_NoUserForExpired ==
  (svc.op = "validateToken" /\ svc.ok) => ~Expired(decodeToken(svc.token), svc.at)

\* C30: a step in which the platform reports the close of a connection while
\* the status is connected moves the status to error or disconnected and
\* hands the new status to the status-change callback.
C30_CloseLeavesConnected ==
  [][ (last'.op = "close" /\ conns' # conns /\ status = CONNECTED)
        => /\ status' \in {ERROR, DISCONNECTED}
           /\ last'.emitted # <<>>
           /\ last'.emitted[Len(last'.emitted)] = status' ]_vars

\* C31: a step changes the status only if it hands a status to
\* onStatusChange, and the last status a step hands to onStatusChange is
\* the status the step leaves; so the status last delivered is getStatus().
C31_StatusOnlyWithCallback ==
  [][ /\ status' # status => last'.emitted # <<>>
      /\ (last' # last /\ last'.emitted # <<>>)
           => last'.emitted[Len(last'.emitted)] = status' ]_vars

C31_Witness ==
  /\ variant = "whatsapp"
  /\ last.op = "close"
  /\ last.status0 = CONNECTED
  /\ last.emitted = <<DISCONNECTED>>
  /\ status = DISCONNECTED
  /\ BagCardinality(awaiting) > 0

\* C32: a step of the reconnect timer in which starting the connection fails
\* either schedules another attempt or sets the status to error and hands
\* it to onStatusChange; the retry chain does not end without a report.
C32_FailedAttemptReported ==
  [][ (last'.op = "timer" /\ last'.result = "threw" /\ timers' # timers)
        => \/ timers' >= timers
           \/ /\ status' = ERROR
              /\ last'.emitted # <<>>
              /\ last'.emitted[Len(last'.emitted)] = ERROR ]_vars

\* C33: when attemptReconnect has destroyed the client of a Discord adapter
\* whose shard disconnected, the connect() it calls performs the connection
\* sequence: it sets connecting and hands it to onStatusChange, and the
\* status is not left connected with the client destroyed.
C33_ReconnectPerformsConnect ==
  [][ (last'.op = "attemptReconnect" /\ last' # last /\ last'.result # "caught")
        => /\ last'.emitted # <<>>
           /\ Head(last'.emitted) = CONNECTING
           /\ ~(status' = CONNECTED /\ Live' = {}) ]_vars

\* C34: on a WhatsApp adapter on which disconnect() ran to its end and a
\* later connect() started its socket, a transient close of that socket
\* while the adapter is connected, no disconnect() is in progress and
\* attempts remain schedules a reconnect.
C34_ReconnectAfterCycle ==
  [][ (/\ cycle = 3
       /\ last'.op = "close" /\ last'.arg = "transient"
       /\ conn # 0 /\ conns[conn] = "open" /\ conns'[conn] = "closed"
       /\ status = CONNECTED
       /\ BagToSet(awaiting) = {}
       /\ reconnectAttempts < maxReconnectAttempts)
        => /\ timers' = timers + 1
           /\ last'.result = "reconnecting" ]_vars


\* C35: an adapter has at most one connection object alive (created, with
\* its event handlers registered, and not closed) at any time.
C35_OneLiveConnection == Cardinality(Live) <= 1

\* C36: a message.send or skill.execute step broadcasts message.received or
\* skill.started to the members of a session's room only when its socket is
\* a member of that room.
C36_SendRequiresJoined ==
  gw.op \in {"message.send", "skill.execute"}
    => \A k \in DOMAIN gw.out :
         (gw.out[k].ev \in {"message.received", "skill.started"} /\ gw.out[k].to # {})
           => gw.out[k].joined

\* C37: validateToken returns a user only for a token the identity service
\* issued and accepts, and the user it returns is the one that token names;
\* the cached validation of another token makes no call succeed.
C37_OwnIdentityOnly ==
  (svc.op = "validateToken" /\ svc.ok)
    => /\ Issued(svc.token)
       /\ svc.user = Subject(svc.token)

\* C38: the teardown calls are made at most once each, and process.exit()
\* is called only when the shutdown in progress is over.
C38_ExitAfterShutdown ==
  /\ \A i, j \in DOMAIN down.did : down.did[i].stage = down.did[j].stage => i = j
  /\ down.exited => ShutdownOver

\* C39: while shutdown() is at server.close(), that call can return,
\* whichever clients are connected: it does not wait for connections that
\* only the gateway's shutdown would close.
C39_CloseDoesNotWait ==
  (Running /\ down.pc = 1) => ENABLED shutdownStage

\* C40: a stored row that is not active has connection status disconnected.
C40_DeactivatedStaysDisconnected ==
  \A i \in DOMAIN rows :
    (Stored(i) /\ ~rows[i].active) => rows[i].status = DISCONNECTED
====
